---------------------------- MODULE Spec2Model ----------------------------
(***************************************************************************)
(* The Unit Library of exclave: process_message (the ingestion of unit     *)
(* status events) and rescan (the multi-phase reconciliation that drives   *)
(* the Unit Manager), from src/src/unitlibrary.rs, with the Interface      *)
(* description's compatibility check from src/src/units/interface.rs.      *)
(*                                                                         *)
(* The Unit Library runs on one thread: process_message is called for one  *)
(* event at a time and calls rescan synchronously.  rescan is modelled     *)
(* phase by phase (pc), and no other handler is enabled while pc is not    *)
(* "idle".                                                                 *)
(***************************************************************************)
EXTENDS Naturals, Sequences, FiniteSets, TLC

\* ------------------------------------------------------------------ bounds
\* Events other than RescanRequest that process_message handles in one
\* behaviour.
MaxEvents == 2
\* RescanRequest events handled in one behaviour.
MaxRescans == 2
\* Events other than RescanRequest in one behaviour of SpecChain, where the
\* unit files are a jig, a test and a scenario only.
MaxChainEvents == 4
\* File events the watcher reports in one behaviour of SpecWatch.
MaxWatchEvents == 3
\* Calls of activate and deactivate on the Interface in one behaviour of
\* SpecInterface.
MaxOps == 4
\* Length of the text fields escaped and unescaped in SpecText.
MaxLen == 3
\* Lines the children write on their output streams in one behaviour of
\* SpecReader.
MaxLines == 3

\* ------------------------------------------------------------------- names
\* unit::UnitKind: the six kinds of unit files, and the reserved Internal kind.
Kinds == {"Interface", "Jig", "Logger", "Scenario", "Test", "Trigger"}

InternalKind == "Internal"

\* unit::UnitName: an id and a kind; two names are equal iff both are.
UnitName(id, kind) == [id |-> id, kind |-> kind]

\* The unit files of the model: one jig, and one unit of every other kind.
JigNames == {UnitName("main", "Jig")}

TestNames == {UnitName("t", "Test")}

FileNames ==
    JigNames \cup TestNames \cup
    {UnitName("op", "Interface"), UnitName("log", "Logger"),
     UnitName("s", "Scenario"), UnitName("trig", "Trigger")}

\* A name of kind Internal, as the daemon's own components use.
InternalNames == {UnitName("core", InternalKind)}

AllNames == FileNames \cup InternalNames

\* The units of SpecChain: the jig, the test, the scenario.
ChainNames == JigNames \cup TestNames \cup {UnitName("s", "Scenario")}

\* Stands for "no unit" in a log entry that names none.
NoName == UnitName("", "")

\* UnitName::kind()
KindOf(name) == name.kind

\* ---------------------------------------------------------------- statuses
\* unitbroadcaster::UnitStatus.  info is the path of a *Started status (the
\* path of a unit is a function of its name, here its id) and the reason of
\* LoadFailed.
LoadStarted(path) == [tag |-> "LoadStarted", info |-> path]

UpdateStarted(path) == [tag |-> "UpdateStarted", info |-> path]

UnloadStarted(path) == [tag |-> "UnloadStarted", info |-> path]

LoadFailed(reason) == [tag |-> "LoadFailed", info |-> reason]

PathOf(name) == name.id

\* format!("{}", e) of a UnitDescriptionError, of UnitIncompatibleReason::
\* IncompatibleJig, and of the load error of a unit of another kind.
ParseReason == "parse error"

IncompatibleJig == "IncompatibleJig"

LoadReason == "load error"

IsLoadFailed(status) == status.tag = "LoadFailed"

IsUnloadStarted(status) == status.tag = "UnloadStarted"

\* ------------------------------------------------------------ descriptions
\* A parsed description: the jigs it lists (Jigs=) and, for a scenario, the
\* tests it is composed of.  A jig description lists neither.
Description(jigs, tests) == [jigs |-> jigs, tests |-> tests]

\* The descriptions a unit file of the kind can parse to.
Descriptions(kind) ==
    IF kind = "Jig" THEN {Description({}, {})}
    ELSE IF kind = "Scenario"
         THEN {Description(j, t) : j \in SUBSET JigNames, t \in SUBSET TestNames}
         ELSE {Description(j, {}) : j \in SUBSET JigNames}

\* $trgt::from_path($path): Err(e), or Ok(description).
ParseErr == [ok |-> FALSE, description |-> Description({}, {})]

ParseOk(description) == [ok |-> TRUE, description |-> description]

from_path(kind) == {ParseErr} \cup {ParseOk(d) : d \in Descriptions(kind)}

\* -------------------------------------------------------------------- maps
\* HashMap::insert, HashMap::remove, on a function with a finite domain.
Insert(map, key, value) ==
    [k \in DOMAIN map \cup {key} |-> IF k = key THEN value ELSE map[k]]

Remove(map, key) == [k \in DOMAIN map \ {key} |-> map[k]]

EmptyMap == [k \in {} |-> TRUE]

\* The orders in which a HashMap may iterate over the keys in S.
Orders(S) ==
    {o \in [1..Cardinality(S) -> S] : \A x \in S : \E i \in DOMAIN o : o[i] = x}

\* ------------------------------------------------------------------- state
VARIABLES
    unit_status,    \* UnitLibrary.unit_status: name -> UnitStatus
    descriptions,   \* the six *_descriptions stores, by kind: name -> description
    dirty,          \* the six dirty_* sets, by kind
    loaded,         \* the Unit Manager's loaded units: name -> description
    pc,             \* where the library's thread is: "idle", or a phase of rescan
    broadcasts,     \* what the handler being run (or last run) broadcast
    calls,          \* the Unit Manager calls of the handler being run (or last run)
    snap,           \* the state rescan started from (history)
    observed,       \* name -> its last file event since the last rescan (history)
    nevents,        \* events other than RescanRequest handled
    nrescans,       \* rescans started
    queue,          \* the library's event queue: events broadcast, not yet handled
    event,          \* the event the watcher thread received last (history)
    process,        \* Interface.process: the child held (0: None)
    children,       \* the child processes alive
    readers,        \* the children whose output reader threads were started
    control,        \* the messages sent on the manager's control channel
    running,        \* activate's local `running`: the child just spawned (0: none)
    returned,       \* what the last Interface call returned, and what it found
    nops,           \* Interface calls made
    format,         \* Interface.desc.format: "Text" or "JSON"
    msg,            \* a text field to be written to an interface
    wire,           \* the field as cfti_escape renders it
    out,            \* the field as cfti_unescape reads it back
    text_pc,        \* how far the field is: "msg", "escaped", "unescaped" ("idle": none)
    unit_file,      \* the contents of an interface unit file
    parsed,         \* what InterfaceDescription::from_path returned for it
    output,         \* stream -> the lines its child has written, not yet read
    written,        \* stream -> every line its child has written (history)
    ended,          \* stream -> its child has closed it (end of file)
    reader,         \* stream -> where its reader thread is
    receiver,       \* the receiving end of the control channel exists
    channel         \* the messages the control channel has taken, in order

library_vars ==
    <<unit_status, descriptions, dirty, loaded, pc, broadcasts, calls, snap,
      observed, nevents, nrescans>>

interface_vars ==
    <<process, children, readers, control, running, returned, nops, format>>

text_vars == <<msg, wire, out, text_pc>>

parse_vars == <<unit_file, parsed>>

reader_vars == <<output, written, ended, reader, receiver, channel>>

\* What the library's handlers never touch.
runtime_vars == <<interface_vars, text_vars, parse_vars, reader_vars>>

vars == <<library_vars, queue, event, runtime_vars>>

interface_descriptions == descriptions["Interface"]

jig_descriptions == descriptions["Jig"]

logger_descriptions == descriptions["Logger"]

scenario_descriptions == descriptions["Scenario"]

test_descriptions == descriptions["Test"]

trigger_descriptions == descriptions["Trigger"]

dirty_interfaces == dirty["Interface"]

dirty_jigs == dirty["Jig"]

dirty_loggers == dirty["Logger"]

dirty_scenarios == dirty["Scenario"]

dirty_tests == dirty["Test"]

dirty_triggers == dirty["Trigger"]

\* ------------------------------------------------------------------ events
\* unitbroadcaster::UnitEvent, as broadcast and as given to process_message.
StatusEvent(name, status) ==
    [type |-> "Status", name |-> name, status |-> status, count |-> 0]

CategoryEvent(kind, count) ==
    [type |-> "Category", name |-> UnitName("", kind),
     status |-> [tag |-> "", info |-> ""], count |-> count]

PlainEvent(type) ==
    [type |-> type, name |-> NoName, status |-> [tag |-> "", info |-> ""], count |-> 0]

RescanStart == PlainEvent("RescanStart")

RescanFinish == PlainEvent("RescanFinish")

RescanRequest == PlainEvent("RescanRequest")

\* A Unit Manager call: the operation, the unit, and whether it returned Ok.
Call(op, id, ok) == [op |-> op, id |-> id, ok |-> ok]

\* The state rescan started from; NoSnap outside a rescan's reach.
NoSnap ==
    [taken |-> FALSE, after_rescan |-> FALSE, unit_status |-> EmptyMap,
     descriptions |-> [k \in Kinds |-> EmptyMap], dirty |-> [k \in Kinds |-> {}],
     dirty3 |-> [k \in Kinds |-> {}], loaded |-> EmptyMap]

\* -------------------------------------------------------------------- Init
\* InterfaceFormat
Formats == {"Text", "JSON"}

\* Interface::new: no child held; nothing spawned, started or sent yet.
NoReturn == [op |-> "none", value |-> "none", held |-> 0]

InterfaceInit ==
    /\ format \in Formats
    /\ process = 0
    /\ children = {}
    /\ readers = {}
    /\ control = <<>>
    /\ running = 0
    /\ returned = NoReturn
    /\ nops = 0

\* No text field is being written.
TextInit == msg = <<>> /\ wire = <<>> /\ out = <<>> /\ text_pc = "idle"

\* No unit file is being parsed.
NoFile == [readable |-> FALSE, section |-> FALSE, ExecStart |-> "absent",
           Format |-> "absent", Jigs |-> "absent"]

NotParsed == [done |-> FALSE, ok |-> FALSE, error |-> "", exec_start |-> "",
              format |-> "", jigs |-> {}]

ParseInit == unit_file = NoFile /\ parsed = NotParsed

\* The output streams that activate hands to reader threads: stdout and
\* stderr of the child of one interface, and stdout of the child of another.
Stream(id, fd) == [id |-> id, fd |-> fd]

Streams == {Stream("op", "stdout"), Stream("op", "stderr"), Stream("gui", "stdout")}

\* No reader thread is started, and the control channel is open and empty.
ReaderInit ==
    /\ output = [s \in Streams |-> <<>>]
    /\ written = [s \in Streams |-> <<>>]
    /\ ended = [s \in Streams |-> FALSE]
    /\ reader = [s \in Streams |-> "none"]
    /\ receiver = TRUE
    /\ channel = <<>>

\* notify::DebouncedEvent, as the watcher thread receives it: Create, Write
\* or Remove of a path, or Rename(old_name, new_name); a path is held in
\* old_name, and new_name is used by Rename only.
DebouncedEvent(kind, old_name, new_name) ==
    [kind |-> kind, old_name |-> old_name, new_name |-> new_name]

\* The watcher thread has received nothing yet.
NoEvent == DebouncedEvent("none", NoName, NoName)

\* UnitLibrary::new: every map and set empty, a fresh Unit Manager.
LibraryInit ==
    /\ unit_status = EmptyMap
    /\ descriptions = [k \in Kinds |-> EmptyMap]
    /\ dirty = [k \in Kinds |-> {}]
    /\ loaded = EmptyMap
    /\ pc = "idle"
    /\ broadcasts = <<>>
    /\ calls = <<>>
    /\ snap = NoSnap
    /\ observed = EmptyMap
    /\ nevents = 0
    /\ nrescans = 0
    /\ queue = <<>>
    /\ event = NoEvent

Init ==
    /\ LibraryInit /\ InterfaceInit /\ format = "Text" /\ TextInit /\ ParseInit
    /\ ReaderInit

\* ------------------------------------------------------------- mark_dirty
\* mark_dirty with the Internal arm routed to dirty_jigs instead of None.
mark_dirty_internal_to_jigs(d, name) ==
    IF KindOf(name) \in Kinds
    THEN [d EXCEPT ![KindOf(name)] = @ \cup {name}]
    ELSE [d EXCEPT !["Jig"] = @ \cup {name}]

\* UnitLibrary::mark_dirty: the dirty sets with name added to the set of its
\* kind; an Internal name is added to none.
mark_dirty(d, name) ==
    IF KindOf(name) \in Kinds
    THEN [d EXCEPT ![KindOf(name)] = @ \cup {name}]
    ELSE d

\* ------------------------------------------------------------- process_if!
\* The library's own state, as the macros of unitlibrary.rs read and write it
\* through $slf: the status table, the stores, the dirty sets, the broadcaster.
Lib(st, ds, dy, bc) ==
    [unit_status |-> st, descriptions |-> ds, dirty |-> dy, broadcasts |-> bc]

\* process_if!($slf, $name, $status, $tstkind, $path, $trgt, $desc), parse
\* being what $trgt::from_path($path) returns.
process_if(lib, name, status, tstkind, parse) ==
    IF KindOf(name) = tstkind
    THEN LET marked == mark_dirty(lib.dirty, name)
         IN  IF ~parse.ok
             THEN Lib(Insert(lib.unit_status, name, LoadFailed(ParseReason)),
                      lib.descriptions,
                      marked,
                      Append(lib.broadcasts,
                             StatusEvent(name, LoadFailed(ParseReason))))
             ELSE LET stored ==
                          [lib.descriptions EXCEPT
                              ![tstkind] = Insert(@, name, parse.description)]
                  IN  Lib(Insert(lib.unit_status, name, status),
                          stored,
                          marked,
                          Append(lib.broadcasts,
                                 CategoryEvent(tstkind,
                                               Cardinality(DOMAIN stored[tstkind]))))
    ELSE lib

\* process_message, the LoadStarted arm: the six kinds.
on_load_started(lib, name, status, parse) ==
    LET a == process_if(lib, name, status, "Interface", parse)
        b == process_if(a, name, status, "Logger", parse)
        c == process_if(b, name, status, "Jig", parse)
        d == process_if(c, name, status, "Scenario", parse)
        e == process_if(d, name, status, "Test", parse)
    IN  process_if(e, name, status, "Trigger", parse)

\* The UpdateStarted arm with the six kinds of the LoadStarted arm.
on_update_started_with_test(lib, name, status, parse) ==
    on_load_started(lib, name, status, parse)

\* process_message, the UpdateStarted arm: five kinds, Test is not among them.
on_update_started(lib, name, status, parse) ==
    LET a == process_if(lib, name, status, "Interface", parse)
        b == process_if(a, name, status, "Jig", parse)
        c == process_if(b, name, status, "Logger", parse)
        d == process_if(c, name, status, "Scenario", parse)
    IN  process_if(d, name, status, "Trigger", parse)

\* The UnloadStarted arm with the description removed at once.
on_unload_started_removes_description(lib, name, path) ==
    Lib(Insert(lib.unit_status, name, UnloadStarted(path)),
        [k \in Kinds |-> [n \in DOMAIN lib.descriptions[k] \ {name} |->
                             lib.descriptions[k][n]]],
        mark_dirty(lib.dirty, name),
        lib.broadcasts)

\* process_message, the UnloadStarted arm.
on_unload_started(lib, name, path) ==
    Lib(Insert(lib.unit_status, name, UnloadStarted(path)),
        lib.descriptions,
        mark_dirty(lib.dirty, name),
        lib.broadcasts)

\* The library's state when a handler starts: nothing broadcast yet.
LibNow == Lib(unit_status, descriptions, dirty, <<>>)

\* The kinds whose file the arm parses; for any other name from_path is not
\* called and the parse result is not an input.
ParsesOf(name, kinds) ==
    IF KindOf(name) \in kinds THEN from_path(KindOf(name)) ELSE {ParseErr}

\* The file event a status stands for, recorded for the units of the six kinds.
Observe(name, ev) ==
    IF KindOf(name) \in Kinds THEN Insert(observed, name, ev) ELSE observed

\* What every process_message call that is no rescan does around its arm:
\* the arm's result is stored, and the event goes on to the Unit Manager.
Handled(lib, name) ==
    /\ unit_status' = lib.unit_status
    /\ descriptions' = lib.descriptions
    /\ dirty' = lib.dirty
    /\ broadcasts' = lib.broadcasts
    /\ calls' = <<Call("process_message", name, TRUE)>>
    /\ snap' = NoSnap
    /\ pc' = "done"
    /\ UNCHANGED <<loaded, nrescans, runtime_vars>>

\* process_message(Status(name, LoadStarted(path))), for a name among names.
ProcessLoadStarted(names, max) ==
    /\ pc = "idle"
    /\ nevents < max
    /\ \E name \in names :
         \E parse \in ParsesOf(name, Kinds) :
            /\ Handled(on_load_started(LibNow, name, LoadStarted(PathOf(name)), parse),
                       name)
            /\ observed' = Observe(name, "create")
    /\ nevents' = nevents + 1
    /\ UNCHANGED <<queue, event>>

\* process_message(Status(name, UpdateStarted(path))), for a name among names.
ProcessUpdateStarted(names, max) ==
    /\ pc = "idle"
    /\ nevents < max
    /\ \E name \in names :
         \E parse \in ParsesOf(name, Kinds \ {"Test"}) :
            /\ Handled(on_update_started(LibNow, name, UpdateStarted(PathOf(name)),
                                         parse),
                       name)
            /\ observed' = Observe(name, "modify")
    /\ nevents' = nevents + 1
    /\ UNCHANGED <<queue, event>>

\* process_message(Status(name, UnloadStarted(path))), for a name among names.
ProcessUnloadStarted(names, max) ==
    /\ pc = "idle"
    /\ nevents < max
    /\ \E name \in names :
            /\ Handled(on_unload_started(LibNow, name, PathOf(name)), name)
            /\ observed' = Observe(name, "remove")
    /\ nevents' = nevents + 1
    /\ UNCHANGED <<queue, event>>

\* process_message of any other event (a Status with another status, a
\* Category, RescanStart, RescanFinish): the `_ => ()` arms.
ProcessOther(max) ==
    /\ pc = "idle"
    /\ nevents < max
    /\ Handled(LibNow, NoName)
    /\ nevents' = nevents + 1
    /\ UNCHANGED <<observed, queue, event>>

\* ------------------------------------------------------------ Unit Manager
\* The Unit Manager is not part of the sources at hand; what rescan needs of
\* it is modelled from its contract: the loaded units, each with the
\* description it was loaded from.

\* UnitManager::unload(id): the unit is no longer loaded.
unload(units, id) == Remove(units, id)

\* What a successful UnitManager::load_<kind>(description) leaves loaded.
store_loaded(units, id, description) == Insert(units, id, description)

\* UnitManager::jig_is_loaded(name)
jig_is_loaded(units, name) == name \in DOMAIN units /\ KindOf(name) = "Jig"

\* UnitManager::get_scenarios(): the loaded scenarios.
get_scenarios(units) == {n \in DOMAIN units : KindOf(n) = "Scenario"}

\* Scenario::uses_test(test_name), of a loaded scenario.
uses_test(units, scenario_name, test_name) == test_name \in units[scenario_name].tests

\* ---------------------------------------------------- InterfaceDescription
\* supports_jig that takes an empty jig list for "every jig".
supports_jig_or_none_listed(description, name) ==
    description.jigs = {} \/ name \in description.jigs

\* InterfaceDescription::supports_jig: self.jigs.contains(name)
supports_jig(description, name) == name \in description.jigs

\* supports_jig of the descriptions of the other kinds (Test, Scenario,
\* Logger, Trigger), whose sources are not at hand: the same contract.
unit_supports_jig(kind, description, name) ==
    IF kind = "Interface"
    THEN supports_jig(description, name)
    ELSE name \in description.jigs

\* is_compatible without the early return for an empty jig list.
is_compatible_without_empty_case(description, units) ==
    \E jig_name \in description.jigs : jig_is_loaded(units, jig_name)

\* InterfaceDescription::is_compatible: TRUE for Ok(()), FALSE for
\* Err(UnitIncompatibleReason::IncompatibleJig).
is_compatible(description, units) ==
    IF Cardinality(description.jigs) = 0
    THEN TRUE
    ELSE \E jig_name \in description.jigs : jig_is_loaded(units, jig_name)

\* InterfaceDescription::load: Ok(Interface) iff compatible.
load(description, units) == is_compatible(description, units)

\* UnitManager::load_<kind>(description): whether it returns Ok.  An
\* interface loads iff its description does; the load of a unit of another
\* kind succeeds or fails as the manager decides (accepted: the ids whose
\* load succeeds, an input of the phase).
load_result(kind, id, description, units, accepted) ==
    IF kind = "Interface" THEN load(description, units) ELSE id \in accepted

\* The reason of a failed load, as format!("{}", e) gives it.
load_error(kind) == IF kind = "Interface" THEN IncompatibleJig ELSE LoadReason

\* The name of the manager's load function of a kind ($load).
LoadOp(kind) ==
    CASE kind = "Jig" -> "load_jig"
      [] kind = "Interface" -> "load_interface"
      [] kind = "Logger" -> "load_logger"
      [] kind = "Trigger" -> "load_trigger"
      [] kind = "Test" -> "load_test"
      [] kind = "Scenario" -> "load_scenario"

\* ------------------------------------------------------------------ rescan
\* The state rescan works on: the library's maps and sets, the manager's
\* loaded units, the calls made, and whether a panic ended the rescan.
Machine ==
    [unit_status |-> unit_status, descriptions |-> descriptions, dirty |-> dirty,
     loaded |-> loaded, calls |-> calls, to_remove |-> {}, panicked |-> FALSE]

\* Phase 1 without its first inner loop, the one over test_descriptions.
phase1_without_tests(d, ds) ==
    [k \in Kinds |->
        IF k \in {"Jig", "Test"}
        THEN d[k]
        ELSE d[k] \cup {n \in DOMAIN ds[k] :
                          \E jig_name \in d["Jig"] :
                             unit_supports_jig(k, ds[k][n], jig_name)}]

\* Phase 1: every Test, Scenario, Interface, Logger and Trigger description
\* that supports a dirty jig is marked dirty.
phase1(d, ds) ==
    [k \in Kinds |->
        IF k = "Jig"
        THEN d[k]
        ELSE d[k] \cup {n \in DOMAIN ds[k] :
                          \E jig_name \in d["Jig"] :
                             unit_supports_jig(k, ds[k][n], jig_name)}]

\* Phase 2: every loaded scenario that uses a dirty test is marked dirty.
phase2(d, units) ==
    [d EXCEPT !["Scenario"] =
        @ \cup {scenario_name \in get_scenarios(units) :
                  \E test_name \in d["Test"] :
                     uses_test(units, scenario_name, test_name)}]

\* The eviction arm without the removal of the description.
evict_keeps_description(m, kind, id) ==
    [m EXCEPT !.loaded = unload(@, id),
              !.calls = Append(@, Call("unload", id, TRUE)),
              !.to_remove = @ \cup {id}]

\* Phase 3, the arm of UnloadStarted and LoadFailed: the description is
\* removed, the unit is unloaded, the id is pushed on to_remove.
evict(m, kind, id) ==
    [m EXCEPT !.descriptions[kind] = Remove(@, id),
              !.loaded = unload(@, id),
              !.calls = Append(@, Call("unload", id, TRUE)),
              !.to_remove = @ \cup {id}]

\* The loop of phase 3 with an eviction arm for UnloadStarted only.
RECURSIVE evict_loop_unload_started_only(_, _, _, _)
evict_loop_unload_started_only(m, kind, order, i) ==
    IF i > Len(order) \/ m.panicked
    THEN m
    ELSE LET id == order[i]
         IN  IF id \notin DOMAIN m.unit_status
             THEN [m EXCEPT !.panicked = TRUE]
             ELSE IF IsUnloadStarted(m.unit_status[id])
                  THEN evict_loop_unload_started_only(evict(m, kind, id), kind, order,
                                                      i + 1)
                  ELSE evict_loop_unload_started_only(m, kind, order, i + 1)

\* Phase 3, the loop over one dirty set, in the order the HashMap iterates:
\* a missing status panics (expect); UnloadStarted and LoadFailed evict.
RECURSIVE evict_loop(_, _, _, _)
evict_loop(m, kind, order, i) ==
    IF i > Len(order) \/ m.panicked
    THEN m
    ELSE LET id == order[i]
         IN  IF id \notin DOMAIN m.unit_status
             THEN [m EXCEPT !.panicked = TRUE]
             ELSE IF IsUnloadStarted(m.unit_status[id]) \/ IsLoadFailed(m.unit_status[id])
                  THEN evict_loop(evict(m, kind, id), kind, order, i + 1)
                  ELSE evict_loop(m, kind, order, i + 1)

\* The last loop of phase 3 without statuses.remove(&id).
forget_keeps_status(m) ==
    [m EXCEPT !.dirty = [k \in Kinds |-> {n \in @[k] : n \notin m.to_remove}]]

\* Phase 3, its last loop: every id of to_remove leaves the dirty set of its
\* kind and the status table.
forget(m) ==
    [m EXCEPT !.dirty = [k \in Kinds |-> {n \in @[k] : n \notin m.to_remove}],
              !.unit_status = [n \in DOMAIN @ \ m.to_remove |-> @[n]]]

\* Phase 3: the six loops in the order of the source, then the removals.
phase3(m, jigs, tests, scenarios, interfaces, loggers, triggers) ==
    LET a == evict_loop(m, "Jig", jigs, 1)
        b == evict_loop(a, "Test", tests, 1)
        c == evict_loop(b, "Scenario", scenarios, 1)
        d == evict_loop(c, "Interface", interfaces, 1)
        e == evict_loop(d, "Logger", loggers, 1)
        f == evict_loop(e, "Trigger", triggers, 1)
    IN  IF f.panicked THEN f ELSE forget(f)

\* The loop of load_units_for_activation! without the unload before the load.
RECURSIVE load_loop_without_unload(_, _, _, _, _)
load_loop_without_unload(m, kind, order, i, accepted) ==
    IF i > Len(order) \/ m.panicked
    THEN m
    ELSE LET id == order[i]
         IN  IF id \notin DOMAIN m.unit_status \/ id \notin DOMAIN m.descriptions[kind]
             THEN load_loop_without_unload([m EXCEPT !.to_remove = @ \cup {id}],
                                           kind, order, i + 1, accepted)
             ELSE LET status == m.unit_status[id]
                      description == m.descriptions[kind][id]
                  IN  IF status.tag \notin {"LoadStarted", "UpdateStarted"}
                      THEN [m EXCEPT !.panicked = TRUE]
                      ELSE IF load_result(kind, id, description, m.loaded, accepted)
                      THEN load_loop_without_unload(
                               [m EXCEPT !.loaded = store_loaded(@, id, description),
                                         !.calls = Append(@, Call(LoadOp(kind), id, TRUE))],
                               kind, order, i + 1, accepted)
                      ELSE load_loop_without_unload(
                               [m EXCEPT !.unit_status =
                                             Insert(@, id, LoadFailed(load_error(kind))),
                                         !.calls = Append(@, Call(LoadOp(kind), id, FALSE)),
                                         !.to_remove = @ \cup {id}],
                               kind, order, i + 1, accepted)

\* load_units_for_activation!, the loop over the dirty set.
RECURSIVE load_loop(_, _, _, _, _)
load_loop(m, kind, order, i, accepted) ==
    IF i > Len(order) \/ m.panicked
    THEN m
    ELSE LET id == order[i]
         IN  IF id \notin DOMAIN m.unit_status
             THEN load_loop([m EXCEPT !.to_remove = @ \cup {id}],
                            kind, order, i + 1, accepted)
             ELSE IF id \notin DOMAIN m.descriptions[kind]
             THEN load_loop([m EXCEPT !.to_remove = @ \cup {id}],
                            kind, order, i + 1, accepted)
             ELSE LET status == m.unit_status[id]
                      description == m.descriptions[kind][id]
                      unloaded == unload(m.loaded, id)
                      u == [m EXCEPT !.loaded = unloaded,
                                     !.calls = Append(@, Call("unload", id, TRUE))]
                  IN  IF status.tag \notin {"LoadStarted", "UpdateStarted"}
                      THEN [u EXCEPT !.panicked = TRUE]
                      ELSE IF load_result(kind, id, description, unloaded, accepted)
                      THEN load_loop(
                               [u EXCEPT !.loaded = store_loaded(@, id, description),
                                         !.calls = Append(@, Call(LoadOp(kind), id, TRUE))],
                               kind, order, i + 1, accepted)
                      ELSE load_loop(
                               [u EXCEPT !.unit_status =
                                             Insert(@, id, LoadFailed(load_error(kind))),
                                         !.calls = Append(@, Call(LoadOp(kind), id, FALSE)),
                                         !.to_remove = @ \cup {id}],
                               kind, order, i + 1, accepted)

\* load_units_for_activation! without the removal of to_remove from the
\* dirty set.
load_units_for_activation_keeps_failed(m, kind, order, accepted) ==
    load_loop([m EXCEPT !.to_remove = {}], kind, order, 1, accepted)

\* load_units_for_activation!: the loop, then to_remove leaves the dirty set.
load_units_for_activation(m, kind, order, accepted) ==
    LET r == load_loop([m EXCEPT !.to_remove = {}], kind, order, 1, accepted)
    IN  IF r.panicked
        THEN r
        ELSE [r EXCEPT !.dirty[kind] = @ \ r.to_remove]

\* load_units! without the clear of the dirty set.
load_units_without_clear(m, kind, order, accepted) ==
    load_units_for_activation(m, kind, order, accepted)

\* load_units!: load_units_for_activation!, then the dirty set is cleared.
load_units(m, kind, order, accepted) ==
    LET r == load_units_for_activation(m, kind, order, accepted)
    IN  IF r.panicked THEN r ELSE [r EXCEPT !.dirty[kind] = {}]

\* select_and_activate_units!: select(id) then activate(id) for every id of
\* the dirty set, which is then cleared.
RECURSIVE select_loop(_, _, _)
select_loop(m, order, i) ==
    IF i > Len(order)
    THEN m
    ELSE select_loop(
             [m EXCEPT !.calls = @ \o <<Call("select", order[i], TRUE),
                                        Call("activate", order[i], TRUE)>>],
             order, i + 1)

\* select_and_activate_units! without the clear of the dirty set.
select_and_activate_without_clear(m, kind, order) == select_loop(m, order, 1)

select_and_activate_units(m, kind, order) ==
    [select_loop(m, order, 1) EXCEPT !.dirty[kind] = {}]

\* ------------------------------------------------------- rescan, by phase
\* What a phase leaves behind; a panic ends the rescan (and the daemon).
Apply(m, next) ==
    /\ unit_status' = m.unit_status
    /\ descriptions' = m.descriptions
    /\ dirty' = m.dirty
    /\ loaded' = m.loaded
    /\ calls' = m.calls
    /\ pc' = IF m.panicked THEN "panicked" ELSE next
    /\ UNCHANGED <<observed, nevents, nrescans, queue, event, runtime_vars>>

\* process_message(RescanRequest) that hands the event to the Unit Manager
\* before it calls rescan.
RescanBeginForwardsFirst ==
    /\ pc = "idle"
    /\ nrescans < MaxRescans
    /\ nrescans' = nrescans + 1
    /\ broadcasts' = <<RescanStart>>
    /\ calls' = <<Call("process_message", NoName, TRUE)>>
    /\ snap' = [taken |-> TRUE, after_rescan |-> snap.after_rescan,
                unit_status |-> unit_status, descriptions |-> descriptions,
                dirty |-> dirty, dirty3 |-> [k \in Kinds |-> {}], loaded |-> loaded]
    /\ pc' = "phase1"
    /\ UNCHANGED <<unit_status, descriptions, dirty, loaded, observed, nevents,
                   queue, event, runtime_vars>>

\* process_message(RescanRequest) calls rescan, which broadcasts RescanStart
\* and borrows the status table.
RescanBegin ==
    /\ pc = "idle"
    /\ nrescans < MaxRescans
    /\ nrescans' = nrescans + 1
    /\ broadcasts' = <<RescanStart>>
    /\ calls' = <<>>
    /\ snap' = [taken |-> TRUE, after_rescan |-> snap.after_rescan,
                unit_status |-> unit_status, descriptions |-> descriptions,
                dirty |-> dirty, dirty3 |-> [k \in Kinds |-> {}], loaded |-> loaded]
    /\ pc' = "phase1"
    /\ UNCHANGED <<unit_status, descriptions, dirty, loaded, observed, nevents,
                   queue, event, runtime_vars>>

\* 1. Go through jigs and mark dependent units as dirty.
Phase1 ==
    /\ pc = "phase1"
    /\ dirty' = phase1(dirty, descriptions)
    /\ pc' = "phase2"
    /\ UNCHANGED <<unit_status, descriptions, loaded, broadcasts, calls, snap,
                   observed, nevents, nrescans, queue, event, runtime_vars>>

\* 2. Go through tests and mark scenarios as dirty.
Phase2 ==
    /\ pc = "phase2"
    /\ dirty' = phase2(dirty, loaded)
    /\ pc' = "phase3"
    /\ UNCHANGED <<unit_status, descriptions, loaded, broadcasts, calls, snap,
                   observed, nevents, nrescans, queue, event, runtime_vars>>

\* 3. Delete any "dirty" objects that were Deleted.
Phase3 ==
    /\ pc = "phase3"
    /\ \E jigs \in Orders(dirty_jigs), tests \in Orders(dirty_tests),
          scenarios \in Orders(dirty_scenarios),
          interfaces \in Orders(dirty_interfaces),
          loggers \in Orders(dirty_loggers), triggers \in Orders(dirty_triggers) :
         Apply(phase3(Machine, jigs, tests, scenarios, interfaces, loggers, triggers),
               "load")
    /\ snap' = [snap EXCEPT !.dirty3 = dirty]
    /\ UNCHANGED broadcasts

\* The load phases with the interfaces loaded before the jigs.
load_phases_interfaces_first(m, iter, accepted) ==
    LET a == load_units_for_activation(m, "Interface", iter["Interface"], accepted)
        b == load_units_for_activation(a, "Jig", iter["Jig"], accepted)
        c == load_units_for_activation(b, "Logger", iter["Logger"], accepted)
        d == load_units_for_activation(c, "Trigger", iter["Trigger"], accepted)
        e == load_units(d, "Test", iter["Test"], accepted)
    IN  load_units(e, "Scenario", iter["Scenario"], accepted)

\* The load phases given up at the first phase in which a load failed.
load_phases_stop_at_failure(m, iter, accepted) ==
    LET failed(x) == \E n \in DOMAIN x.calls : ~x.calls[n].ok
        a == load_units_for_activation(m, "Jig", iter["Jig"], accepted)
        b == IF failed(a) THEN a
             ELSE load_units_for_activation(a, "Interface", iter["Interface"], accepted)
        c == IF failed(b) THEN b
             ELSE load_units_for_activation(b, "Logger", iter["Logger"], accepted)
        d == IF failed(c) THEN c
             ELSE load_units_for_activation(c, "Trigger", iter["Trigger"], accepted)
        e == IF failed(d) THEN d ELSE load_units(d, "Test", iter["Test"], accepted)
    IN  IF failed(e) THEN e ELSE load_units(e, "Scenario", iter["Scenario"], accepted)

\* 4. Load all Jigs that are valid.
\* 5. Load all Interfaces that are compatible with this Jig.
\* 6. Load all loggers that are compatible with this Jig.
\* 7. Load all Triggers that are compatible with this Jig.
\* 8. Load all Tests that are compatible with this Jig.
\* 9. Load all Scenarios that are compatible with this Jig.
\* iter gives the order in which each dirty set is iterated, accepted the
\* units whose load the manager accepts.
load_phases(m, iter, accepted) ==
    LET a == load_units_for_activation(m, "Jig", iter["Jig"], accepted)
        b == load_units_for_activation(a, "Interface", iter["Interface"], accepted)
        c == load_units_for_activation(b, "Logger", iter["Logger"], accepted)
        d == load_units_for_activation(c, "Trigger", iter["Trigger"], accepted)
        e == load_units(d, "Test", iter["Test"], accepted)
    IN  load_units(e, "Scenario", iter["Scenario"], accepted)

\* The sweep in the reverse order of kinds.
activate_phases_triggers_first(m, jigs, interfaces, loggers, triggers) ==
    LET a == select_and_activate_units(m, "Trigger", triggers)
        b == select_and_activate_units(a, "Logger", loggers)
        c == select_and_activate_units(b, "Interface", interfaces)
        d == select_and_activate_units(c, "Jig", jigs)
    IN  [d EXCEPT !.calls = Append(@, Call("refresh_defaults", NoName, TRUE))]

\* 10. Activate all jigs that were just loaded.
\* 11. Activate all interfaces that were just loaded.
\* 11. Activate all loggers that were just loaded.
\* 12. Activate all triggers that were just loaded.
\* 13. Prepare any defaults that need loading: refresh_defaults.
activate_phases(m, jigs, interfaces, loggers, triggers) ==
    LET a == select_and_activate_units(m, "Jig", jigs)
        b == select_and_activate_units(a, "Interface", interfaces)
        c == select_and_activate_units(b, "Logger", loggers)
        d == select_and_activate_units(c, "Trigger", triggers)
    IN  [d EXCEPT !.calls = Append(@, Call("refresh_defaults", NoName, TRUE))]

\* Phases 4 to 9.  A dirty set is iterated as it is when its phase starts:
\* phases 4 to 9 add nothing to a dirty set, and each removes only from its
\* own, after its loop.
LoadPhases ==
    /\ pc = "load"
    /\ \E jigs \in Orders(dirty_jigs), interfaces \in Orders(dirty_interfaces),
          loggers \in Orders(dirty_loggers), triggers \in Orders(dirty_triggers),
          tests \in Orders(dirty_tests), scenarios \in Orders(dirty_scenarios) :
         \E accepted \in SUBSET (UNION {dirty[k] : k \in Kinds \ {"Interface"}}) :
            Apply(load_phases(Machine,
                              [k \in Kinds |->
                                  CASE k = "Jig" -> jigs
                                    [] k = "Interface" -> interfaces
                                    [] k = "Logger" -> loggers
                                    [] k = "Trigger" -> triggers
                                    [] k = "Test" -> tests
                                    [] k = "Scenario" -> scenarios],
                              accepted),
                  "activate")
    /\ UNCHANGED <<broadcasts, snap>>

\* Phases 10 to 13, the RescanFinish broadcast, and, back in
\* process_message, the RescanRequest goes on to the Unit Manager.
ActivatePhases ==
    /\ pc = "activate"
    /\ \E jigs \in Orders(dirty_jigs), interfaces \in Orders(dirty_interfaces),
          loggers \in Orders(dirty_loggers), triggers \in Orders(dirty_triggers) :
         LET m == activate_phases(Machine, jigs, interfaces, loggers, triggers)
         IN  /\ dirty' = m.dirty
             /\ calls' = Append(m.calls, Call("process_message", NoName, TRUE))
    /\ broadcasts' = Append(broadcasts, RescanFinish)
    /\ pc' = "done"
    /\ UNCHANGED <<unit_status, descriptions, loaded, snap, observed, nevents,
                   nrescans, queue, event, runtime_vars>>

\* process_message returns, and the daemon waits for the next event.
Return ==
    /\ pc = "done"
    /\ pc' = "idle"
    /\ broadcasts' = <<>>
    /\ calls' = <<>>
    /\ snap' = [NoSnap EXCEPT !.after_rescan = snap.taken]
    /\ observed' = IF snap.taken THEN EmptyMap ELSE observed
    /\ UNCHANGED <<unit_status, descriptions, dirty, loaded, nevents, nrescans,
                   queue, event, runtime_vars>>

Next ==
    \/ ProcessLoadStarted(AllNames, MaxEvents)
    \/ ProcessUpdateStarted(AllNames, MaxEvents)
    \/ ProcessUnloadStarted(AllNames, MaxEvents)
    \/ ProcessOther(MaxEvents)
    \/ RescanBegin
    \/ Phase1
    \/ Phase2
    \/ Phase3
    \/ LoadPhases
    \/ ActivatePhases
    \/ Return

Spec == Init /\ [][Next]_vars

\* The same library where only the jig, the test and the scenario have
\* events, and more of them.
NextChain ==
    \/ ProcessLoadStarted(ChainNames, MaxChainEvents)
    \/ ProcessUpdateStarted(ChainNames, MaxChainEvents)
    \/ ProcessUnloadStarted(ChainNames, MaxChainEvents)
    \/ ProcessOther(MaxChainEvents)
    \/ RescanBegin
    \/ Phase1
    \/ Phase2
    \/ Phase3
    \/ LoadPhases
    \/ ActivatePhases
    \/ Return

SpecChain == Init /\ [][NextChain]_vars

\* ------------------------------------------------- the watcher and the queue
\* The directory watcher runs on its own thread and only broadcasts; the
\* library's thread takes one event at a time off its queue and calls
\* process_message with it.  (The event bus and the loop that feeds
\* process_message are not part of the sources at hand: a FIFO queue, as
\* their contract has it.)

\* The unit files the watcher reports on in SpecWatch.
WatchNames == JigNames \cup {UnitName("op", "Interface")}

\* rescan is between its RescanStart and its RescanFinish broadcast.
RescanRunning == pc \in {"phase1", "phase2", "phase3", "load", "activate"}

\* The library's thread takes the next event only when process_message has
\* returned: process_message runs the whole of rescan before it returns.
LibraryIdleOrInPhase3 == pc \in {"idle", "phase3"}

LibraryIdle == pc = "idle"

\* UnitStatusEvent::new_added / new_updated / new_removed, as queued;
\* during_rescan tells whether a rescan was running when it was broadcast
\* (history).
WatchEvent(name, tag) == [name |-> name, tag |-> tag, during_rescan |-> RescanRunning]

\* What the watcher calls an event of each status.
WatchKind(tag) ==
    CASE tag = "LoadStarted" -> "Create"
      [] tag = "UpdateStarted" -> "Write"
      [] tag = "UnloadStarted" -> "Remove"

\* The paths the watcher reports a rename of: the unit files, and a file
\* whose extension is that of no unit kind.
WatchPaths == WatchNames \cup {UnitName("notes", "txt")}

\* UnitStatusEvent::new_removed(path) and new_added(path): Some(event) when
\* the path names a unit (its extension is that of a unit kind), None
\* otherwise; an Option is a sequence of at most one element.
new_removed(path) ==
    IF KindOf(path) \in Kinds THEN <<WatchEvent(path, "UnloadStarted")>> ELSE <<>>

new_added(path) ==
    IF KindOf(path) \in Kinds THEN <<WatchEvent(path, "LoadStarted")>> ELSE <<>>

\* The watcher thread, on Create(path), Write(path) or Remove(path) of a
\* unit file.
Watch ==
    /\ nevents < MaxWatchEvents
    /\ \E name \in WatchNames, tag \in {"LoadStarted", "UpdateStarted", "UnloadStarted"} :
          /\ queue' = Append(queue, WatchEvent(name, tag))
          /\ event' = DebouncedEvent(WatchKind(tag), name, NoName)
    /\ nevents' = nevents + 1
    /\ UNCHANGED <<unit_status, descriptions, dirty, loaded, pc, broadcasts, calls,
                   snap, observed, nrescans, runtime_vars>>

\* The watcher thread on Rename with the addition broadcast before the
\* removal.
WatchRenameAddedFirst ==
    /\ nevents + 1 < MaxWatchEvents
    /\ \E old_name \in WatchPaths :
       \E new_name \in WatchPaths \ {old_name} :
          /\ queue' = queue \o new_added(new_name) \o new_removed(old_name)
          /\ event' = DebouncedEvent("Rename", old_name, new_name)
    /\ nevents' = nevents + 2
    /\ UNCHANGED <<unit_status, descriptions, dirty, loaded, pc, broadcasts, calls,
                   snap, observed, nrescans, runtime_vars>>

\* The watcher thread, on Rename(old_name, new_name): removed, then added,
\* each only if new_removed or new_added gives an event for the path.
WatchRename ==
    /\ nevents + 1 < MaxWatchEvents
    /\ \E old_name \in WatchPaths :
       \E new_name \in WatchPaths \ {old_name} :
          /\ queue' = queue \o new_removed(old_name) \o new_added(new_name)
          /\ event' = DebouncedEvent("Rename", old_name, new_name)
    /\ nevents' = nevents + 2
    /\ UNCHANGED <<unit_status, descriptions, dirty, loaded, pc, broadcasts, calls,
                   snap, observed, nrescans, runtime_vars>>

\* The library's thread: process_message with the event at the head of the
\* queue.
Deliver ==
    /\ LibraryIdle
    /\ queue # <<>>
    /\ LET name == Head(queue).name
           tag == Head(queue).tag
       IN  \/ /\ tag = "LoadStarted"
              /\ \E parse \in ParsesOf(name, Kinds) :
                    Handled(on_load_started(LibNow, name, LoadStarted(PathOf(name)),
                                            parse),
                            name)
              /\ observed' = Observe(name, "create")
           \/ /\ tag = "UpdateStarted"
              /\ \E parse \in ParsesOf(name, Kinds \ {"Test"}) :
                    Handled(on_update_started(LibNow, name,
                                              UpdateStarted(PathOf(name)), parse),
                            name)
              /\ observed' = Observe(name, "modify")
           \/ /\ tag = "UnloadStarted"
              /\ Handled(on_unload_started(LibNow, name, PathOf(name)), name)
              /\ observed' = Observe(name, "remove")
    /\ queue' = Tail(queue)
    /\ UNCHANGED <<nevents, event>>

NextWatch ==
    \/ Watch
    \/ WatchRename
    \/ Deliver
    \/ RescanBegin
    \/ Phase1
    \/ Phase2
    \/ Phase3
    \/ LoadPhases
    \/ ActivatePhases
    \/ Return

SpecWatch == Init /\ [][NextWatch]_vars

\* ------------------------------------------------------- Interface runtime
\* One Interface instance (src/src/units/interface.rs), called from one
\* thread: its process field, the child processes it has spawned, the reader
\* threads it has started and the control channel it sends on.  A child is
\* named by a number, 0 standing for None.

\* ManagerControlMessage::new(&id, contents), for the one instance.
ControlMessage(contents) == [contents |-> contents]

InitialGreeting == ControlMessage("InitialGreeting")

ChildExited == ControlMessage("ChildExited")

\* What a call returned: the call, the value, and the child that the
\* instance held when it was called.
Returned(op, value, held) == [op |-> op, value |-> value, held |-> held]

\* What Running::terminate(timeout) can return: Ok(0), Ok(i) with i # 0, or
\* Err(e).
TerminateOutcomes == {"exit 0", "exit nonzero", "error"}

\* deactivate that takes the child out of the instance only when terminate
\* returned Ok.
deactivate_keeps_child_on_error(held, outcome) ==
    IF held # 0
    THEN [process |-> IF outcome = "error" THEN held ELSE 0,
          value |-> CASE outcome = "exit 0" -> "Ok"
                      [] outcome = "exit nonzero" -> "NonZeroReturn"
                      [] outcome = "error" -> "RunningError"]
    ELSE [process |-> 0, value |-> "Ok"]

\* Interface::deactivate: the process field afterwards and the value
\* returned, for the child held and what terminate returns.  take() empties
\* the field before terminate is called.
deactivate(held, outcome) ==
    IF held # 0
    THEN [process |-> 0,
          value |-> CASE outcome = "exit 0" -> "Ok"
                      [] outcome = "exit nonzero" -> "NonZeroReturn"
                      [] outcome = "error" -> "RunningError"]
    ELSE [process |-> 0, value |-> "Ok"]

\* activate, up to Runny::new(..).start()?: the spawn fails and activate
\* returns the error, or a new child runs and activate goes on.
ActivateSpawn ==
    /\ running = 0
    /\ nops < MaxOps
    /\ nops' = nops + 1
    /\ \/ /\ returned' = Returned("activate", "SpawnError", process)
          /\ UNCHANGED <<children, running>>
       \/ /\ children' = children \cup {nops + 1}
          /\ running' = nops + 1
          /\ returned' = Returned("activate", "pending", process)
    /\ UNCHANGED <<process, readers, control, format, library_vars, queue, event,
                   text_vars, parse_vars, reader_vars>>

\* activate, after the spawn: the two reader threads (Text only), the child
\* stored in process, the InitialGreeting.  The Running that process held is
\* dropped by the assignment; whether dropping it ends its child is up to the
\* process library, so both outcomes are allowed.
ActivateStore ==
    /\ running # 0
    /\ readers' = IF format = "Text" THEN readers \cup {running} ELSE readers
    /\ process' = running
    /\ children' \in {children, children \ {process}}
    /\ control' = Append(control, InitialGreeting)
    /\ running' = 0
    /\ returned' = Returned("activate", "Ok", returned.held)
    /\ UNCHANGED <<nops, format, library_vars, queue, event, text_vars, parse_vars,
                   reader_vars>>

\* Interface::deactivate.  When terminate returns Ok the child has exited;
\* when it returns an error the child may still be running.
Deactivate ==
    /\ running = 0
    /\ nops < MaxOps
    /\ nops' = nops + 1
    /\ \E outcome \in TerminateOutcomes :
          LET r == deactivate(process, outcome)
          IN  /\ process' = r.process
              /\ returned' = Returned("deactivate", r.value, process)
              /\ children' \in
                    IF process = 0
                    THEN {children}
                    ELSE IF outcome = "error"
                         THEN {children, children \ {process}}
                         ELSE {children \ {process}}
    /\ UNCHANGED <<readers, control, running, format, library_vars, queue, event,
                   text_vars, parse_vars, reader_vars>>

\* A child exits by itself; text_read, at the end of its stdout, sends
\* ChildExited.
ChildExit ==
    /\ \E child \in children :
          /\ children' = children \ {child}
          /\ control' = IF child \in readers
                        THEN Append(control, ChildExited)
                        ELSE control
    /\ UNCHANGED <<process, readers, running, returned, nops, format,
                   library_vars, queue, event, text_vars, parse_vars, reader_vars>>

NextInterface ==
    \/ ActivateSpawn
    \/ ActivateStore
    \/ Deactivate
    \/ ChildExit

InitInterface ==
    LibraryInit /\ InterfaceInit /\ TextInit /\ ParseInit /\ ReaderInit

SpecInterface == InitInterface /\ [][NextInterface]_vars

\* ---------------------------------------------------- cfti_escape / unescape
\* A string is a sequence of characters; the characters the two functions
\* tell apart, and one that stands for any other printable character.
Backslash == "\\"

Tab == "\t"

Newline == "\n"

CarriageReturn == "\r"

Chars == {Backslash, Tab, Newline, CarriageReturn, "t", "n", "r", "a"}

\* The strings of at most n characters.
Strings(n) == UNION {[1..k -> Chars] : k \in 0..n}

\* str::replace(from, to) for a pattern of one character.
RECURSIVE replace(_, _, _)
replace(str, from, to) ==
    IF str = <<>>
    THEN <<>>
    ELSE (IF Head(str) = from THEN to ELSE <<Head(str)>>)
         \o replace(Tail(str), from, to)

\* cfti_escape with the backslash replaced last.
cfti_escape_backslash_last(str) ==
    replace(replace(replace(replace(str, Tab, <<Backslash, "t">>),
                            Newline, <<Backslash, "n">>),
                    CarriageReturn, <<Backslash, "r">>),
            Backslash, <<Backslash, Backslash>>)

\* Interface::cfti_escape: four replace calls, the backslash first.
cfti_escape(str) ==
    replace(replace(replace(replace(str, Backslash, <<Backslash, Backslash>>),
                            Tab, <<Backslash, "t">>),
                    Newline, <<Backslash, "n">>),
            CarriageReturn, <<Backslash, "r">>)

\* Interface::cfti_unescape, the loop over msg.chars() from character i on,
\* with the flag was_bs and the output so far.
RECURSIVE unescape_loop(_, _, _, _)
unescape_loop(str, i, was_bs, result) ==
    IF i > Len(str)
    THEN result
    ELSE LET c == str[i]
         IN  IF c = Backslash
             THEN IF was_bs
                  THEN unescape_loop(str, i + 1, FALSE, Append(result, Backslash))
                  ELSE unescape_loop(str, i + 1, TRUE, result)
             ELSE IF c = "t"
             THEN unescape_loop(str, i + 1, FALSE,
                                Append(result, IF was_bs THEN Tab ELSE "t"))
             ELSE IF c = "r"
             THEN unescape_loop(str, i + 1, FALSE,
                                Append(result, IF was_bs THEN CarriageReturn ELSE "r"))
             ELSE IF c = "n"
             THEN unescape_loop(str, i + 1, FALSE,
                                Append(result, IF was_bs THEN Newline ELSE "n"))
             ELSE unescape_loop(str, i + 1, FALSE, Append(result, c))

\* Interface::cfti_unescape
cfti_unescape(str) == unescape_loop(str, 1, FALSE, <<>>)

\* text_write renders a field with cfti_escape.
Escape ==
    /\ text_pc = "msg"
    /\ wire' = cfti_escape(msg)
    /\ text_pc' = "escaped"
    /\ UNCHANGED <<msg, out, library_vars, queue, event, interface_vars, parse_vars,
                   reader_vars>>

\* text_read reads a word back with cfti_unescape.
Unescape ==
    /\ text_pc = "escaped"
    /\ out' = cfti_unescape(wire)
    /\ text_pc' = "unescaped"
    /\ UNCHANGED <<msg, wire, library_vars, queue, event, interface_vars, parse_vars,
                   reader_vars>>

NextText == Escape \/ Unescape

InitText ==
    /\ LibraryInit /\ InterfaceInit /\ ParseInit /\ ReaderInit
    /\ msg \in Strings(MaxLen)
    /\ wire = <<>>
    /\ out = <<>>
    /\ text_pc = "msg"

SpecText == InitText /\ [][NextText]_vars

\* ------------------------------------------- InterfaceDescription::from_path
\* An interface unit file, by what from_path looks at: whether the name, the
\* file and the unit syntax are good, whether there is an [Interface]
\* section, and for ExecStart, Format and Jigs whether the directive is
\* there, there without a value ("novalue"), or there with the value given.
UnitFiles ==
    [readable : BOOLEAN, section : BOOLEAN,
     ExecStart : {"absent", "novalue", "cmd"},
     Format : {"absent", "novalue", "text", "TEXT", "json", "xml"},
     Jigs : {"absent", "novalue", "main"}]

\* Err(e) of from_path.
InterfaceParseErr(e) ==
    [done |-> TRUE, ok |-> FALSE, error |-> e, exec_start |-> "", format |-> "",
     jigs |-> {}]

\* Ok(interface_description): exec_start and jigs start empty and format as
\* Text, and each directive that is there replaces its field.
InterfaceParseOk(file) ==
    [done |-> TRUE, ok |-> TRUE, error |-> "",
     exec_start |-> IF file.ExecStart = "cmd" THEN "cmd" ELSE "",
     format |-> IF file.Format = "json" THEN "JSON" ELSE "Text",
     jigs |-> IF file.Jigs = "main" THEN JigNames ELSE {}]

\* The errors the directives of the section raise: the loop returns the
\* first one it meets, in the order of the file.
DirectiveErrors(file) ==
    (IF file.ExecStart = "novalue" THEN {"MissingValue"} ELSE {})
    \cup (IF file.Format = "xml" THEN {"InvalidValue"} ELSE {})

\* InterfaceDescription::from_path: what it can return for the file.
interface_from_path(file) ==
    IF ~file.readable
    THEN {InterfaceParseErr("unreadable")}
    ELSE IF ~file.section
    THEN {InterfaceParseErr("MissingSection")}
    ELSE IF DirectiveErrors(file) # {}
    THEN {InterfaceParseErr(e) : e \in DirectiveErrors(file)}
    ELSE {InterfaceParseOk(file)}

\* from_path is called for the file.
Parse ==
    /\ ~parsed.done
    /\ unit_file \in UnitFiles
    /\ parsed' \in interface_from_path(unit_file)
    /\ UNCHANGED <<unit_file, library_vars, queue, event, interface_vars, text_vars,
                   reader_vars>>

NextParse == Parse

InitParse ==
    /\ LibraryInit /\ InterfaceInit /\ TextInit /\ ReaderInit
    /\ unit_file \in UnitFiles
    /\ parsed = NotParsed

SpecParse == InitParse /\ [][NextParse]_vars

\* --------------------------------------------------- the reader threads
\* activate starts two threads for a Text interface: text_read on the child's
\* stdout and text_read_stderr on its stderr.  Each reads its stream line by
\* line and sends on its clone of the manager's control channel; a send
\* succeeds as long as the receiving end exists, and the channel hands the
\* messages over in the order it took them.

\* ManagerControlMessage::new(&id, contents)
ManagerControlMessage(id, contents) == [id |-> id, contents |-> contents]

\* ManagerControlMessageContents, with the words it carries.
Contents(tag, words) == [tag |-> tag, words |-> words]

LogError(line) == Contents("LogError", line)

ChildExitedContents == Contents("ChildExited", <<>>)

\* A line is the sequence of its words (split_whitespace); a blank line has
\* none.  The words here hold no backslash and no upper-case letter, so
\* cfti_unescape and to_lowercase leave them as they are.
BlankLine == <<>>

\* The lines a child writes on the stream, all of them valid text.
LinesOf(stream) ==
    IF stream = Stream("op", "stdout")
    THEN {BlankLine, <<"jig">>, <<"ping", "now">>}
    ELSE IF stream.fd = "stderr"
    THEN {<<"warning">>}
    ELSE {<<"scenarios">>}

\* text_read: the response to a line with a verb, for the verbs jig and
\* scenarios and for a verb that no arm matches.
response(words) ==
    LET verb == Head(words)
    IN  IF verb = "scenarios" THEN Contents("Scenarios", <<>>)
        ELSE IF verb = "jig" THEN Contents("Jig", <<>>)
        ELSE Contents("Unimplemented", words)

\* text_read that takes a blank line for a line with an empty verb.
text_read_line_without_blank_check(words) ==
    IF Len(words) = 0
    THEN <<Contents("Unimplemented", <<"">>)>>
    ELSE <<response(words)>>

\* text_read, one turn of its loop up to the send: what is to be sent for
\* the line; nothing for a blank line (continue).
text_read_line(words) ==
    IF Len(words) = 0 THEN <<>> ELSE <<response(words)>>

\* The child writes a line on one of its streams.
ChildWrites ==
    /\ \E stream \in Streams :
          /\ ~ended[stream]
          /\ \E line \in LinesOf(stream) :
                /\ output' = [output EXCEPT ![stream] = Append(@, line)]
                /\ written' = [written EXCEPT ![stream] = Append(@, line)]
    /\ Len(written[Stream("op", "stdout")]) + Len(written[Stream("op", "stderr")])
          + Len(written[Stream("gui", "stdout")]) < MaxLines
    /\ UNCHANGED <<ended, reader, receiver, channel, library_vars, queue, event,
                   interface_vars, text_vars, parse_vars>>

\* The child closes a stream (it exits): the reader meets the end of the
\* stream after the lines written so far.
ChildCloses ==
    /\ \E stream \in Streams :
          /\ ~ended[stream]
          /\ ended' = [ended EXCEPT ![stream] = TRUE]
    /\ UNCHANGED <<output, written, reader, receiver, channel, library_vars, queue, event,
                   interface_vars, text_vars, parse_vars>>

\* The receiving end of the control channel is dropped.
DropReceiver ==
    /\ receiver
    /\ receiver' = FALSE
    /\ UNCHANGED <<output, written, ended, reader, channel, library_vars, queue, event,
                   interface_vars, text_vars, parse_vars>>

\* Interface::text_read, one step of the thread.  With a line to read: a
\* blank line is skipped; the response to any other line is sent, and when
\* the send fails the loop is left.  At the end of the stream the loop is
\* left too.  After the loop ChildExited is sent, and a failure of that send
\* is a panic (expect); after a failed send in the loop it does fail.
TextRead ==
    /\ \E stream \in Streams :
          /\ stream.fd = "stdout"
          /\ reader[stream] = "reading"
          /\ \/ /\ output[stream] # <<>>
                /\ output' = [output EXCEPT ![stream] = Tail(@)]
                /\ LET sending == text_read_line(Head(output[stream]))
                   IN  IF sending = <<>>
                       THEN UNCHANGED <<reader, channel>>
                       ELSE IF receiver
                       THEN /\ channel' = Append(channel,
                                                 ManagerControlMessage(stream.id,
                                                                       sending[1]))
                            /\ UNCHANGED reader
                       ELSE /\ reader' = [reader EXCEPT ![stream] = "panicked"]
                            /\ UNCHANGED channel
             \/ /\ output[stream] = <<>>
                /\ ended[stream]
                /\ UNCHANGED output
                /\ IF receiver
                   THEN /\ channel' = Append(channel,
                                             ManagerControlMessage(stream.id,
                                                                   ChildExitedContents))
                        /\ reader' = [reader EXCEPT ![stream] = "returned"]
                   ELSE /\ reader' = [reader EXCEPT ![stream] = "panicked"]
                        /\ UNCHANGED channel
    /\ UNCHANGED <<written, ended, receiver, library_vars, queue, event, interface_vars,
                   text_vars, parse_vars>>

\* Interface::text_read_stderr, one step of the thread: every line, a blank
\* one too, is sent as LogError; a failed send or the end of the stream ends
\* the loop, and the thread returns.
TextReadStderr ==
    /\ \E stream \in Streams :
          /\ stream.fd = "stderr"
          /\ reader[stream] = "reading"
          /\ \/ /\ output[stream] # <<>>
                /\ output' = [output EXCEPT ![stream] = Tail(@)]
                /\ IF receiver
                   THEN /\ channel' = Append(channel,
                                             ManagerControlMessage(
                                                 stream.id,
                                                 LogError(Head(output[stream]))))
                        /\ UNCHANGED reader
                   ELSE /\ reader' = [reader EXCEPT ![stream] = "returned"]
                        /\ UNCHANGED channel
             \/ /\ output[stream] = <<>>
                /\ ended[stream]
                /\ reader' = [reader EXCEPT ![stream] = "returned"]
                /\ UNCHANGED <<output, channel>>
    /\ UNCHANGED <<written, ended, receiver, library_vars, queue, event, interface_vars,
                   text_vars, parse_vars>>

NextReader ==
    \/ ChildWrites
    \/ ChildCloses
    \/ DropReceiver
    \/ TextRead
    \/ TextReadStderr

\* activate has started the reader threads of the two children.
InitReader ==
    /\ LibraryInit /\ InterfaceInit /\ TextInit /\ ParseInit
    /\ output = [s \in Streams |-> <<>>]
    /\ written = [s \in Streams |-> <<>>]
    /\ ended = [s \in Streams |-> FALSE]
    /\ reader = [s \in Streams |-> "reading"]
    /\ receiver = TRUE
    /\ channel = <<>>

SpecReader == InitReader /\ [][NextReader]_vars


\* ================================================================== claims
\* What the claims below say of a handler's run.

\* rescan has just finished: RescanFinish is broadcast and the RescanRequest
\* has gone on to the manager.
RescanFinished == pc = "done" /\ snap.taken

\* The manager call op(id) was made in the handler's run.
Called(op, id) == \E i \in DOMAIN calls : calls[i].op = op /\ calls[i].id = id

\* The manager's load of id was called and returned Ok.
LoadedOk(id) ==
    \E i \in DOMAIN calls :
        calls[i] = Call(LoadOp(KindOf(id)), id, TRUE)

\* select(id) was called, and activate(id) right after it.
SelectedAndActivated(id) ==
    \E i \in DOMAIN calls :
        /\ i < Len(calls)
        /\ calls[i] = Call("select", id, TRUE)
        /\ calls[i + 1] = Call("activate", id, TRUE)

\* unload(id) was called, and the load of id after it.
Reloaded(id) ==
    \E i, j \in DOMAIN calls :
        /\ i < j
        /\ calls[i] = Call("unload", id, TRUE)
        /\ calls[j].op = LoadOp(KindOf(id))
        /\ calls[j].id = id

\* The status of name in a status table is UnloadStarted or LoadFailed.
Doomed(statuses, name) ==
    /\ name \in DOMAIN statuses
    /\ (IsUnloadStarted(statuses[name]) \/ IsLoadFailed(statuses[name]))

\* name is in no description store, not in the status table, in no dirty set.
Gone(name) ==
    /\ \A k \in Kinds : name \notin DOMAIN descriptions[k]
    /\ name \notin DOMAIN unit_status
    /\ \A k \in Kinds : name \notin dirty[k]

\* ---------------------------------------------------------------------- C1
\* C1 (as claimed; the code violates it).  Dirty-set soundness: when a rescan
\* starts, every unit of the six kinds that had a file event (create, modify
\* or remove) handled by process_message since the last rescan is in the
\* dirty set of its kind and in no other dirty set.
C1_DirtySetSoundness ==
    pc = "phase1" =>
        \A name \in DOMAIN observed :
            /\ name \in dirty[KindOf(name)]
            /\ \A k \in Kinds \ {KindOf(name)} : name \notin dirty[k]

\* ---------------------------------------------------------------------- C2
\* C2 (as claimed; the code violates it).  Eviction completeness: when
\* rescan has just finished, no id has the status UnloadStarted or
\* LoadFailed and is still in a description store, the status table or a
\* dirty set.
C2_NoDoomedIdAfterRescan ==
    RescanFinished => \A name \in AllNames : Doomed(unit_status, name) => Gone(name)

\* C2 (amended).  When rescan has just finished, every id that was in a dirty
\* set when phase 3 ran with the status UnloadStarted or LoadFailed is in no
\* description store, not in the status table and in no dirty set.
C2_EvictionCompleteness ==
    RescanFinished =>
        \A k \in Kinds :
            \A name \in snap.dirty3[k] : Doomed(snap.unit_status, name) => Gone(name)

\* C2, its case: a rescan has finished that met, in phase 3, a dirty id with
\* a stored description whose status was UnloadStarted or LoadFailed.
C2_Witness ==
    /\ RescanFinished
    /\ \E k \in Kinds :
          \E name \in snap.dirty3[k] :
              /\ Doomed(snap.unit_status, name)
              /\ name \in DOMAIN snap.descriptions[k]

\* ---------------------------------------------------------------------- C3
\* C3.  Idempotent rescan: a rescan that starts right after another rescan
\* (no event handled in between) leaves the description stores, the status
\* table, the dirty sets and the manager's loaded units as they were, makes no
\* unload, load, select or activate call, and broadcasts RescanStart and
\* RescanFinish and nothing else.
C3_IdempotentRescan ==
    (snap.taken /\ snap.after_rescan) =>
        /\ descriptions = snap.descriptions
        /\ unit_status = snap.unit_status
        /\ dirty = snap.dirty
        /\ loaded = snap.loaded
        /\ pc # "panicked"
        /\ \A i \in DOMAIN calls : calls[i].op \in {"refresh_defaults", "process_message"}
        /\ \A i \in DOMAIN broadcasts : broadcasts[i] \in {RescanStart, RescanFinish}
        /\ pc = "done" => broadcasts = <<RescanStart, RescanFinish>>

\* C3, its case: the second of two rescans in a row has finished, in a
\* library that holds descriptions, statuses and loaded units.
C3_Witness ==
    /\ RescanFinished
    /\ snap.after_rescan
    /\ DOMAIN loaded # {}
    /\ \E k \in Kinds : DOMAIN descriptions[k] # {}

\* ---------------------------------------------------------------------- C4
\* C4.  Jig propagation: after phase 1, every Test, Scenario, Interface,
\* Logger and Trigger whose stored description lists a jig that was in
\* dirty_jigs when the rescan started is in the dirty set of its kind; and
\* phase 1 adds no other unit: a unit it added has a stored description that
\* lists such a jig (so none with an empty jig list), and dirty_jigs is as it
\* was.
C4_JigPropagation ==
    pc = "phase2" =>
        /\ \A k \in Kinds \ {"Jig"} :
              \A name \in DOMAIN descriptions[k] :
                  (\E jig \in snap.dirty["Jig"] : jig \in descriptions[k][name].jigs)
                      => name \in dirty[k]
        /\ \A k \in Kinds \ {"Jig"} :
              \A name \in dirty[k] \ snap.dirty[k] :
                  /\ name \in DOMAIN descriptions[k]
                  /\ \E jig \in snap.dirty["Jig"] : jig \in descriptions[k][name].jigs
        /\ dirty["Jig"] = snap.dirty["Jig"]

\* C4, its case: phase 1 has added a unit to a dirty set.
C4_Witness ==
    /\ pc = "phase2"
    /\ \E k \in Kinds : dirty[k] \ snap.dirty[k] # {}

\* ---------------------------------------------------------------------- C5
\* C5 (as claimed; the code violates it).  Test invalidates scenario: with
\* the jig, a test t and a scenario s that uses t all loaded when the rescan
\* starts, and the last file event of t since the previous rescan a
\* modification, s is dirty after phase 2, and the rescan unloads s and then
\* calls load_scenario for s.
C5_TestInvalidatesScenario ==
    \A j \in JigNames, t \in TestNames, s \in AllNames :
        ( /\ snap.taken
          /\ KindOf(s) = "Scenario"
          /\ {j, t, s} \subseteq DOMAIN snap.loaded
          /\ t \in snap.loaded[s].tests
          /\ t \in DOMAIN observed
          /\ observed[t] = "modify" )
        => /\ pc = "phase3" => s \in dirty_scenarios
           /\ pc = "done" => Reloaded(s)

\* ---------------------------------------------------------------------- C6
\* C6.  Kind routing: every dirty set holds only names of its own kind, a
\* name of kind Internal is in no dirty set, and mark_dirty of an Internal
\* name leaves the dirty sets as they are.
C6_KindRouting ==
    /\ \A k \in Kinds : \A name \in dirty[k] : KindOf(name) = k
    /\ \A name \in InternalNames : \A k \in Kinds : name \notin dirty[k]
    /\ \A name \in InternalNames : mark_dirty(dirty, name) = dirty

\* C6, its case: an event of an Internal name has been handled (its
\* UnloadStarted status is in the table, so mark_dirty was called with it)
\* and a unit of one of the six kinds is dirty.
C6_Witness ==
    /\ \E name \in InternalNames : name \in DOMAIN unit_status
    /\ \E k \in Kinds : dirty[k] # {}

\* ---------------------------------------------------------------------- C7
\* C7.  Description/status invariant: after every process_message call and
\* after every rescan, every id in a description store has an entry in the
\* status table.
C7_DescriptionHasStatus ==
    pc \in {"done", "idle"} =>
        \A k \in Kinds : \A name \in DOMAIN descriptions[k] : name \in DOMAIN unit_status

\* C7, its case: a rescan has finished that deleted a status entry (an
\* eviction) and left a description in a store.
C7_Witness ==
    /\ RescanFinished
    /\ DOMAIN snap.unit_status \ DOMAIN unit_status # {}
    /\ \E k \in Kinds : DOMAIN descriptions[k] # {}

\* ---------------------------------------------------------------------- C8
\* The library when the rescan started was fresh but for the LoadStarted
\* events of jig j and interface i, both parsed, i listing j.
FreshStart(j, i) ==
    /\ snap.taken
    /\ nrescans = 1
    /\ snap.loaded = EmptyMap
    /\ DOMAIN snap.unit_status = {j, i}
    /\ snap.unit_status[j].tag = "LoadStarted"
    /\ snap.unit_status[i].tag = "LoadStarted"
    /\ j \in DOMAIN snap.descriptions["Jig"]
    /\ i \in DOMAIN snap.descriptions["Interface"]
    /\ j \in snap.descriptions["Interface"][i].jigs

\* C8.  Fresh start: from an empty library, after the LoadStarted events of a
\* jig j and of an interface i that lists j (both files parse), one rescan
\* calls load_jig(j) before load_interface(i); when the manager accepts j, i
\* passes its compatibility check and is loaded, and select and activate are
\* called for both j and i in that rescan.
C8_FreshStart ==
    \A j \in JigNames, i \in AllNames :
        (KindOf(i) = "Interface" /\ FreshStart(j, i) /\ pc = "done") =>
            /\ \E a, b \in DOMAIN calls :
                  /\ a < b
                  /\ calls[a].op = "load_jig" /\ calls[a].id = j
                  /\ calls[b].op = "load_interface" /\ calls[b].id = i
            /\ LoadedOk(j) =>
                  /\ LoadedOk(i)
                  /\ {j, i} \subseteq DOMAIN loaded
                  /\ SelectedAndActivated(j)
                  /\ SelectedAndActivated(i)
                  /\ unit_status[i].tag = "LoadStarted"

\* C8, its case: the rescan of a fresh start has finished with the jig and
\* the interface loaded.
C8_Witness ==
    \E j \in JigNames, i \in AllNames :
        /\ KindOf(i) = "Interface"
        /\ FreshStart(j, i)
        /\ pc = "done"
        /\ {j, i} \subseteq DOMAIN loaded

\* ---------------------------------------------------------------------- C9
\* C9.  Incompatible interface: once the load phases of a rescan are over,
\* for every interface whose load was called in the rescan: if its jig list
\* is not empty and none of the jigs it lists is loaded, the load failed, the
\* status is LoadFailed with the compatibility reason, the interface is not
\* in dirty_interfaces, and neither select nor activate is called for it; if
\* its jig list is empty, the load succeeded.  (The jigs loaded and the
\* stored descriptions are those of the interface's load step: nothing
\* changes them after phase 4 and phase 3.)
C9_IncompatibleInterface ==
    (snap.taken /\ pc \in {"activate", "done"}) =>
        \A c \in DOMAIN calls :
            calls[c].op = "load_interface" =>
                LET i == calls[c].id
                    jigs == interface_descriptions[i].jigs
                IN  /\ (jigs # {} /\ \A j \in jigs : j \notin DOMAIN loaded) =>
                          /\ ~calls[c].ok
                          /\ unit_status[i] = LoadFailed(IncompatibleJig)
                          /\ i \notin dirty_interfaces
                          /\ ~Called("select", i)
                          /\ ~Called("activate", i)
                          /\ i \notin DOMAIN loaded
                    /\ jigs = {} => calls[c].ok

\* C9, its case: a rescan has finished in which the load of an interface
\* failed with the compatibility reason.
C9_Witness ==
    /\ RescanFinished
    /\ \E c \in DOMAIN calls :
          /\ calls[c].op = "load_interface"
          /\ ~calls[c].ok
          /\ unit_status[calls[c].id] = LoadFailed(IncompatibleJig)

\* --------------------------------------------------------------------- C10
\* C10 (as claimed; the code violates it).  Compatibility is re-derived: if,
\* when a rescan starts, interface i has the status LoadFailed for
\* incompatibility, its description is stored and lists jig j, no file event
\* of i was handled since (its file is on disk), and the rescan loads j,
\* then the rescan loads i again with success, the status of i is no longer
\* LoadFailed, and i is selected and activated.
C10_CompatibilityRederived ==
    \A j \in JigNames, i \in AllNames :
        ( /\ RescanFinished
          /\ KindOf(i) = "Interface"
          /\ i \in DOMAIN snap.unit_status
          /\ snap.unit_status[i] = LoadFailed(IncompatibleJig)
          /\ i \in DOMAIN snap.descriptions["Interface"]
          /\ j \in snap.descriptions["Interface"][i].jigs
          /\ i \notin DOMAIN observed
          /\ LoadedOk(j) )
        => /\ LoadedOk(i)
           /\ i \in DOMAIN unit_status
           /\ ~IsLoadFailed(unit_status[i])
           /\ SelectedAndActivated(i)

\* --------------------------------------------------------------------- C11
\* ev is one of the events of a broadcast log.
InLog(log, ev) == \E n \in DOMAIN log : log[n] = ev

\* C11 (as claimed; the code violates it).  No silent failures: every step
\* of process_message or rescan that writes LoadFailed(reason) into the
\* status table of a unit (the entry is new, or was another status) has
\* broadcast a Status event of that unit with LoadFailed(reason).
C11_NoSilentFailure ==
    [][\A name \in AllNames :
          ( /\ name \in DOMAIN unit_status'
            /\ IsLoadFailed(unit_status'[name])
            /\ (name \in DOMAIN unit_status => unit_status[name] # unit_status'[name]) )
          => InLog(broadcasts', StatusEvent(name, unit_status'[name]))]_vars

\* --------------------------------------------------------------------- C12
\* C12.  Rescan atomicity: while a rescan is between its RescanStart and its
\* RescanFinish, no event is taken off the queue and applied: a step made
\* then leaves the record of applied file events as it is, and if it is the
\* arrival of an event it leaves the status table, the description stores
\* and the dirty sets as they are.  An event is applied in one step of
\* process_message, made when no rescan is running.
C12_RescanAtomicity ==
    [][/\ RescanRunning =>
            /\ Len(queue') >= Len(queue)
            /\ observed' = observed
            /\ queue' # queue => UNCHANGED <<unit_status, descriptions, dirty>>
       /\ Len(queue') < Len(queue) => (pc = "idle" /\ pc' = "done" /\ ~snap'.taken)
      ]_vars

\* C12, its case: an event that was broadcast while the rescan was running
\* waits in the queue, and the rescan has loaded a unit since.
C12_Witness ==
    /\ pc = "activate"
    /\ \E n \in DOMAIN queue : queue[n].during_rescan
    /\ \E c \in DOMAIN calls : calls[c].ok /\ calls[c].op = LoadOp(KindOf(calls[c].id))

\* --------------------------------------------------------------------- C13
\* C13 (as claimed; the code violates it).  Activation atomicity: when
\* activate returns an error (the spawn failed), the instance holds no child
\* afterwards, and the call has started no reader thread, spawned no child
\* and sent no InitialGreeting.
C13_ActivationAtomicity ==
    [][(nops' # nops /\ returned'.op = "activate" /\ returned'.value = "SpawnError")
          => /\ process' = 0
             /\ readers' = readers
             /\ children' = children
             /\ control' = control]_vars

\* --------------------------------------------------------------------- C14
\* C14 (as claimed; the code violates it).  Single live instance: at most
\* one child process of the Interface is alive at any time, and when activate
\* stores a new child, the instance holds no other child any more (the
\* previous one was deactivated first).
C14_SingleLiveInstance ==
    /\ Cardinality(children) <= 1
    /\ (running # 0 => process = 0)

\* --------------------------------------------------------------------- C15
\* C15.  Deactivation: deactivate on an instance that holds no child returns
\* Ok and changes nothing; on an instance that holds a child it returns Ok
\* when terminate returns 0, NonZeroReturn when it returns another exit code,
\* RunningError when it returns an error, and in every case the instance
\* holds no child afterwards (so that a deactivate called next returns Ok).
C15_Deactivation ==
    [][(nops' # nops /\ returned'.op = "deactivate")
          => /\ process' = 0
             /\ returned'.value \in {"Ok", "NonZeroReturn", "RunningError"}
             /\ process = 0 =>
                   /\ returned'.value = "Ok"
                   /\ UNCHANGED <<children, readers, control, running>>
             /\ returned.op = "deactivate" => returned'.value = "Ok"]_vars

\* C15, its case: deactivate has returned RunningError on an instance that
\* held a child, and the instance holds none now.
C15_Witness ==
    /\ returned = Returned("deactivate", "RunningError", returned.held)
    /\ returned.held # 0
    /\ process = 0

\* --------------------------------------------------------------------- C16
\* C16.  Escape round-trip: for every string over backslash, tab, newline,
\* carriage return, the letters t, n, r and another printable character,
\* cfti_unescape(cfti_escape(s)) = s.
C16_EscapeRoundTrip == text_pc = "unescaped" => out = msg

\* C16, its case: a string with a backslash and a tab in it has been escaped
\* to a longer string, and read back.
C16_Witness ==
    /\ text_pc = "unescaped"
    /\ \E i, j \in DOMAIN msg : msg[i] = Backslash /\ msg[j] = Tab
    /\ Len(wire) > Len(msg)
    /\ out = msg

\* --------------------------------------------------------------------- C17
\* C17 (as claimed; the code violates it).  ExecStart is required: from_path
\* of a unit file whose [Interface] section has no ExecStart directive
\* returns an error.
C17_ExecStartRequired ==
    (parsed.done /\ unit_file.section /\ unit_file.ExecStart = "absent")
        => ~parsed.ok

\* --------------------------------------------------------------------- C18
\* The kinds in the order of the load phases, and of the sweep.
LoadOrder == <<"Jig", "Interface", "Logger", "Trigger", "Test", "Scenario">>

SweepOrder == <<"Jig", "Interface", "Logger", "Trigger">>

PlaceIn(order, kind) == CHOOSE n \in DOMAIN order : order[n] = kind

\* The n-th manager call of the run is the unload that a load phase makes
\* right before its load of the same unit.
IsLoadUnload(n) ==
    /\ calls[n].op = "unload"
    /\ n < Len(calls)
    /\ calls[n + 1].id = calls[n].id
    /\ KindOf(calls[n].id) \in Kinds
    /\ calls[n + 1].op = LoadOp(KindOf(calls[n].id))

IsLoad(n) ==
    /\ KindOf(calls[n].id) \in Kinds
    /\ calls[n].op = LoadOp(KindOf(calls[n].id))

IsSweep(n) == calls[n].op \in {"select", "activate"}

\* The step of rescan that the n-th manager call belongs to: 0 for the
\* evictions of phase 3, then the six load phases, the four phases of the
\* sweep, refresh_defaults, and the forwarding of the RescanRequest.
StepOf(n) ==
    IF IsLoadUnload(n) \/ IsLoad(n)
    THEN PlaceIn(LoadOrder, KindOf(calls[n].id))
    ELSE IF calls[n].op = "unload"
    THEN 0
    ELSE IF IsSweep(n)
    THEN IF KindOf(calls[n].id) \in {"Jig", "Interface", "Logger", "Trigger"}
         THEN Len(LoadOrder) + PlaceIn(SweepOrder, KindOf(calls[n].id))
         ELSE 0
    ELSE IF calls[n].op = "refresh_defaults"
    THEN Len(LoadOrder) + Len(SweepOrder) + 1
    ELSE Len(LoadOrder) + Len(SweepOrder) + 2

\* C18.  Phase ordering: the manager calls of a rescan are made in the order
\* of the phases: the evictions, then the loads of jigs, interfaces, loggers,
\* triggers, tests, scenarios, then select and activate for jigs,
\* interfaces, loggers, triggers, then refresh_defaults; no select or
\* activate comes before a load; RescanStart is the first broadcast of the
\* rescan and RescanFinish the last, made after refresh_defaults.
C18_PhaseOrdering ==
    (snap.taken /\ pc # "idle") =>
        /\ \A n \in 1..(Len(calls) - 1) : StepOf(n) <= StepOf(n + 1)
        /\ \A a, b \in DOMAIN calls : (IsSweep(a) /\ IsLoad(b)) => b < a
        /\ broadcasts # <<>> /\ broadcasts[1] = RescanStart
        /\ \A n \in DOMAIN broadcasts :
              /\ broadcasts[n] = RescanStart => n = 1
              /\ broadcasts[n] = RescanFinish => (n = Len(broadcasts) /\ pc = "done")
        /\ pc = "done" =>
              /\ broadcasts[Len(broadcasts)] = RescanFinish
              /\ Len(calls) >= 2
              /\ calls[Len(calls) - 1].op = "refresh_defaults"
              /\ calls[Len(calls)].op = "process_message"

\* C18, its case: a rescan has finished that loaded units of two kinds, and
\* selected and activated units of two kinds.
C18_Witness ==
    /\ RescanFinished
    /\ \E a, b \in DOMAIN calls :
          IsLoad(a) /\ IsLoad(b) /\ KindOf(calls[a].id) # KindOf(calls[b].id)
    /\ \E a, b \in DOMAIN calls :
          IsSweep(a) /\ IsSweep(b) /\ KindOf(calls[a].id) # KindOf(calls[b].id)

\* --------------------------------------------------------------------- C19
\* C19.  Select/activate sweep: when a rescan has finished, select and
\* activate were called for exactly the jig, interface, logger and trigger
\* ids whose load succeeded in this rescan: once each, activate(id) right
\* after select(id); so a unit whose load failed, a unit that was evicted, a
\* test and a scenario are neither selected nor activated.
C19_SelectActivateSweep ==
    RescanFinished =>
        /\ \A id \in AllNames :
              (Called("select", id) \/ Called("activate", id))
                  <=> (KindOf(id) \in {"Jig", "Interface", "Logger", "Trigger"}
                       /\ LoadedOk(id))
        /\ \A n \in DOMAIN calls :
              /\ calls[n].op = "select" =>
                    (n < Len(calls) /\ calls[n + 1] = Call("activate", calls[n].id, TRUE))
              /\ calls[n].op = "activate" =>
                    (n > 1 /\ calls[n - 1] = Call("select", calls[n].id, TRUE))
        /\ \A a, b \in DOMAIN calls :
              (calls[a].op = "select" /\ calls[b] = calls[a]) => a = b

\* C19, its case: a rescan has finished in which one unit was loaded,
\* selected and activated, and the load of another failed.
C19_Witness ==
    /\ RescanFinished
    /\ \E id \in AllNames : SelectedAndActivated(id)
    /\ \E n \in DOMAIN calls : IsLoad(n) /\ ~calls[n].ok

\* --------------------------------------------------------------------- C20
\* C20.  Load-failure isolation: once the load phases of a rescan are over,
\* every unit whose load returned an error has the status LoadFailed with
\* the reason of the error, is in no dirty set, and has its description in
\* the store as it was; the load of every unit that phase 3 left dirty was
\* called all the same, the rescan did not stop, and it ends with
\* RescanFinish.
C20_LoadFailureIsolation ==
    (snap.taken /\ pc \notin {"idle", "phase1", "phase2", "phase3", "load"}) =>
        /\ pc \in {"activate", "done"}
        /\ \A n \in DOMAIN calls :
              (IsLoad(n) /\ ~calls[n].ok) =>
                  LET id == calls[n].id
                      kind == KindOf(id)
                  IN  /\ unit_status[id] = LoadFailed(load_error(kind))
                      /\ \A k \in Kinds : id \notin dirty[k]
                      /\ id \in DOMAIN descriptions[kind]
                      /\ descriptions = snap.descriptions
                            \/ descriptions[kind][id] = snap.descriptions[kind][id]
        /\ \A k \in Kinds :
              \A id \in snap.dirty3[k] :
                  ~Doomed(snap.unit_status, id) =>
                      \E n \in DOMAIN calls : IsLoad(n) /\ calls[n].id = id
        /\ pc = "done" => broadcasts[Len(broadcasts)] = RescanFinish

\* C20, its case: a rescan has finished in which the load of one unit failed
\* and the load of another unit was called after it.
C20_Witness ==
    /\ RescanFinished
    /\ \E a, b \in DOMAIN calls :
          /\ a < b
          /\ IsLoad(a) /\ ~calls[a].ok
          /\ IsLoad(b) /\ calls[b].id # calls[a].id

\* --------------------------------------------------------------------- C21
\* C21.  Unload before load: once the load phases of a rescan are over, every
\* id that phase 3 left dirty with a status and a stored description had
\* unload(id) called and, right after it, the load of its kind; every load
\* call of the rescan comes right after the unload of the same id; and of the
\* id only what that load made is loaded: the unit loaded from the stored
\* description when the load succeeded, nothing when it failed.
C21_UnloadBeforeLoad ==
    (snap.taken /\ pc \in {"activate", "done"}) =>
        /\ \A k \in Kinds :
              \A id \in snap.dirty3[k] :
                  ( /\ id \in DOMAIN snap.unit_status
                    /\ ~Doomed(snap.unit_status, id)
                    /\ id \in DOMAIN descriptions[k] )
                  => \E n \in DOMAIN calls : IsLoadUnload(n)  /\ calls[n].id = id
        /\ \A n \in DOMAIN calls :
              IsLoad(n) =>
                  /\ n > 1
                  /\ calls[n - 1] = Call("unload", calls[n].id, TRUE)
                  /\ calls[n].ok =>
                        /\ calls[n].id \in DOMAIN loaded
                        /\ loaded[calls[n].id] = descriptions[KindOf(calls[n].id)][calls[n].id]
                  /\ ~calls[n].ok => calls[n].id \notin DOMAIN loaded

\* C21, its case: a unit that was loaded when the rescan started has been
\* unloaded and loaded again from a new description.
C21_Witness ==
    /\ pc = "activate"
    /\ \E n \in DOMAIN calls :
          /\ IsLoad(n) /\ calls[n].ok
          /\ calls[n].id \in DOMAIN snap.loaded
          /\ snap.loaded[calls[n].id] # loaded[calls[n].id]

\* --------------------------------------------------------------------- C22
\* C22.  All dirty sets are drained: when rescan has broadcast RescanFinish,
\* the six dirty sets are empty.
C22_DirtySetsDrained ==
    (snap.taken /\ InLog(broadcasts, RescanFinish)) => \A k \in Kinds : dirty[k] = {}

\* C22, its case: a rescan has finished that started with a dirty test or
\* scenario and a dirty unit of a kind of the sweep, and loaded a unit.
C22_Witness ==
    /\ RescanFinished
    /\ InLog(broadcasts, RescanFinish)
    /\ \E k \in {"Test", "Scenario"} : snap.dirty3[k] # {}
    /\ \E k \in {"Jig", "Interface", "Logger", "Trigger"} : snap.dirty3[k] # {}
    /\ \E n \in DOMAIN calls : IsLoad(n) /\ calls[n].ok

\* --------------------------------------------------------------------- C23
\* The step is a whole process_message call for a Status event of name whose
\* status stands for the file event ev ("create", "modify", "remove").
HandlesEvent(name, ev) ==
    /\ pc = "idle"
    /\ pc' = "done"
    /\ ~snap'.taken
    /\ calls' = <<Call("process_message", name, TRUE)>>
    /\ name \in DOMAIN observed'
    /\ observed'[name] = ev

\* C23.  Test update asymmetry: process_message of UpdateStarted for a unit
\* of kind Test leaves the description stores, the status table and the dirty
\* sets as they are and broadcasts nothing; all it does is to forward the
\* event to the Unit Manager.
C23_TestUpdateAsymmetry ==
    [][\A name \in TestNames :
          HandlesEvent(name, "modify") =>
              /\ UNCHANGED <<unit_status, descriptions, dirty, loaded>>
              /\ broadcasts' = <<>>]_vars

\* C23, its case: UpdateStarted of a test has just been handled, the test
\* having a stored description and a status, and no dirty set holds it.
C23_Witness ==
    \E name \in TestNames :
        /\ pc = "done"
        /\ calls = <<Call("process_message", name, TRUE)>>
        /\ name \in DOMAIN observed /\ observed[name] = "modify"
        /\ name \in DOMAIN test_descriptions
        /\ name \in DOMAIN unit_status
        /\ name \notin dirty_tests

\* --------------------------------------------------------------------- C24
\* name has the status UnloadStarted.
HasUnloadStarted(name) ==
    name \in DOMAIN unit_status /\ IsUnloadStarted(unit_status[name])

\* The step takes the description of name out of its store, or name out of
\* the manager's loaded units.
Removes(name) ==
    \/ /\ name \in DOMAIN descriptions[KindOf(name)]
       /\ name \notin DOMAIN descriptions'[KindOf(name)]
    \/ /\ name \in DOMAIN loaded
       /\ name \notin DOMAIN loaded'

\* C24.  Unload event handling: process_message of UnloadStarted(path) for a
\* unit writes UnloadStarted(path) into the status table, adds the id to the
\* dirty set of its kind and to no other, and leaves the description stores
\* and the manager's loaded units as they are; while the unit has the status
\* UnloadStarted, only phase 3 of a rescan removes its description or its
\* loaded instance, and phase 3 of the next rescan does remove both, with the
\* status entry.
C24_UnloadEventHandling ==
    [][\A name \in FileNames :
          /\ HandlesEvent(name, "remove") =>
                /\ unit_status' = Insert(unit_status, name, UnloadStarted(PathOf(name)))
                /\ dirty' = [dirty EXCEPT ![KindOf(name)] = @ \cup {name}]
                /\ UNCHANGED <<descriptions, loaded>>
                /\ broadcasts' = <<>>
          /\ (HasUnloadStarted(name) /\ Removes(name)) => (pc = "phase3" /\ pc' = "load")
          /\ (HasUnloadStarted(name) /\ pc = "phase3") =>
                /\ pc' = "load"
                /\ name \in dirty[KindOf(name)]
                /\ name \notin DOMAIN descriptions'[KindOf(name)]
                /\ name \notin DOMAIN loaded'
                /\ name \notin DOMAIN unit_status'
                /\ name \notin dirty'[KindOf(name)]]_vars

\* C24, its case: phase 3 has just evicted a unit that was loaded and had a
\* stored description when its UnloadStarted event was handled.
C24_Witness ==
    /\ pc = "load"
    /\ \E k \in Kinds :
          \E name \in snap.dirty3[k] :
              /\ name \in DOMAIN snap.unit_status
              /\ IsUnloadStarted(snap.unit_status[name])
              /\ name \in DOMAIN snap.descriptions[k]
              /\ name \in DOMAIN snap.loaded
              /\ name \notin DOMAIN descriptions[k]
              /\ name \notin DOMAIN loaded

\* --------------------------------------------------------------------- C25
\* The status a LoadStarted ("create") or UpdateStarted ("modify") event
\* carries.
StatusOf(name, ev) ==
    IF ev = "create" THEN LoadStarted(PathOf(name)) ELSE UpdateStarted(PathOf(name))

\* What process_if! does when the file parses: the description is stored in
\* place of any earlier one, the event's status is written, and a Category
\* event with the new size of the store is broadcast.
ParsedAndStored(name, ev) ==
    /\ \E d \in Descriptions(KindOf(name)) :
          descriptions' = [descriptions EXCEPT ![KindOf(name)] = Insert(@, name, d)]
    /\ unit_status' = Insert(unit_status, name, StatusOf(name, ev))
    /\ broadcasts' =
          <<CategoryEvent(KindOf(name), Cardinality(DOMAIN descriptions'[KindOf(name)]))>>

\* What process_if! does when the file does not parse: LoadFailed(reason) is
\* written and broadcast, and the stores stay as they are.
ParseFailed(name) ==
    /\ descriptions' = descriptions
    /\ unit_status' = Insert(unit_status, name, LoadFailed(ParseReason))
    /\ broadcasts' = <<StatusEvent(name, LoadFailed(ParseReason))>>

\* C25 (as claimed; the code violates it).  Load/update event handling:
\* process_message of LoadStarted or UpdateStarted for a unit adds the id to
\* the dirty set of its kind; then, when the file parses, it stores the
\* description in place of any earlier one, writes the event's status and
\* broadcasts a Category event with the new size of the store; when the file
\* does not parse, it writes LoadFailed(reason), broadcasts a Status event
\* with LoadFailed(reason) and leaves the description stores as they are.
C25_LoadUpdateEventHandling ==
    [][\A name \in FileNames :
          \A ev \in {"create", "modify"} :
              HandlesEvent(name, ev) =>
                  /\ dirty' = [dirty EXCEPT ![KindOf(name)] = @ \cup {name}]
                  /\ loaded' = loaded
                  /\ ParsedAndStored(name, ev) \/ ParseFailed(name)]_vars

\* --------------------------------------------------------------------- C26
\* The places in the call log at which the event went on to the Unit Manager.
Forwards == {n \in DOMAIN calls : calls[n].op = "process_message"}

\* C26.  Event forwarding: when process_message is over, the event has gone
\* on to the Unit Manager once, as the last thing the call did; before that
\* (while a rescan is running) the manager has not received it; for a
\* RescanRequest the manager receives it when the rescan has made its last
\* manager call, refresh_defaults, and broadcast RescanFinish; and no call
\* ends without having forwarded its event.
C26_EventForwarding ==
    /\ pc # "panicked"
    /\ pc = "done" => Forwards = {Len(calls)}
    /\ pc # "done" => Forwards = {}
    /\ (pc = "done" /\ snap.taken) =>
          /\ Len(calls) >= 2
          /\ calls[Len(calls) - 1].op = "refresh_defaults"
          /\ broadcasts[Len(broadcasts)] = RescanFinish
          /\ \A k \in Kinds : dirty[k] = {}

\* C26, its case: a RescanRequest has gone on to the manager after a rescan
\* that loaded, selected and activated a unit.
C26_Witness ==
    /\ RescanFinished
    /\ Forwards = {Len(calls)}
    /\ \E id \in FileNames : LoadedOk(id) /\ SelectedAndActivated(id)

\* --------------------------------------------------------------------- C27
\* The ChildExited messages of an interface id that the channel has taken.
ChildExitedOf(id) ==
    SelectSeq(channel, LAMBDA m : m = ManagerControlMessage(id, ChildExitedContents))

\* C27 (as claimed; the code violates it).  Reader termination: no reader
\* thread panics, whether the receiving end of the control channel exists or
\* not: with the receiver dropped the readers of stdout and of stderr end
\* silently; and a stdout reader that has ended at the end of its stream has
\* sent ChildExited for its interface exactly once.
C27_ReaderTermination ==
    \A stream \in Streams :
        /\ reader[stream] # "panicked"
        /\ (stream.fd = "stdout" /\ reader[stream] = "returned") =>
              Len(ChildExitedOf(stream.id)) = 1

\* --------------------------------------------------------------------- C28
\* The messages of the channel that the stdout reader of id has sent, in the
\* order the channel took them: those of id that are no LogError.
FromStdoutReader(id) ==
    SelectSeq(channel, LAMBDA m : m.id = id /\ m.contents.tag # "LogError")

\* The lines of the stream that its reader has read so far.
LinesRead(stream) ==
    SubSeq(written[stream], 1, Len(written[stream]) - Len(output[stream]))

\* What text_read sends for a sequence of lines, one after the other.
RECURSIVE Responses(_, _)
Responses(id, lines) ==
    IF lines = <<>>
    THEN <<>>
    ELSE (IF Head(lines) = BlankLine
          THEN <<>>
          ELSE <<ManagerControlMessage(id, response(Head(lines)))>>)
         \o Responses(id, Tail(lines))

IsPrefix(a, b) == Len(a) <= Len(b) /\ a = SubSeq(b, 1, Len(a))

\* C28.  Reader FIFO order: the messages that the manager has from the
\* stdout reader of an interface are, in this order, the responses to the
\* non-blank lines the child wrote, one for each line and none for a blank
\* line, up to the line the reader has read (all of them while the receiving
\* end exists), and then ChildExited, which is there iff the reader has
\* returned and after which the reader sends nothing.
C28_ReaderFifoOrder ==
    \A stream \in Streams :
        stream.fd = "stdout" =>
            LET got == FromStdoutReader(stream.id)
                exited == ManagerControlMessage(stream.id, ChildExitedContents)
                n == Len(ChildExitedOf(stream.id))
                answers == SubSeq(got, 1, Len(got) - n)
            IN  /\ n <= 1
                /\ n = 1 <=> reader[stream] = "returned"
                /\ n = 1 => got[Len(got)] = exited
                /\ IsPrefix(answers, Responses(stream.id, LinesRead(stream)))
                /\ (receiver \/ n = 1) =>
                      answers = Responses(stream.id, LinesRead(stream))

\* C28, its case: the child of op wrote jig, a blank line and ping, its
\* reader has returned, and the channel took a message of the other
\* interface between the two answers.
C28_Witness ==
    /\ written[Stream("op", "stdout")] = <<(<<"jig">>), BlankLine, (<<"ping", "now">>)>>
    /\ reader[Stream("op", "stdout")] = "returned"
    /\ Len(channel) = 4
    /\ channel[1] = ManagerControlMessage("op", Contents("Jig", <<>>))
    /\ channel[2].id = "gui"
    /\ channel[3] = ManagerControlMessage("op", Contents("Unimplemented", <<"ping", "now">>))
    /\ channel[4] = ManagerControlMessage("op", ChildExitedContents)

\* --------------------------------------------------------------------- C29
\* The events a step of the watcher thread has put on the queue.
Broadcast == SubSeq(queue', Len(queue) + 1, Len(queue'))

\* A Status event of the watcher for name, with the status tag.
IsStatusOf(ev, name, tag) == ev.name = name /\ ev.tag = tag

\* C29.  Rename flattening: on Rename(old, new) the watcher thread
\* broadcasts the UnloadStarted event of old and right after it the
\* LoadStarted event of new, and nothing else; the event of a path that is
\* no unit file (unknown extension) is left out, the other one is still
\* broadcast.
C29_RenameFlattening ==
    [][(nevents' # nevents /\ event'.kind = "Rename") =>
          LET old == event'.old_name
              new == event'.new_name
              isunit(path) == KindOf(path) \in Kinds
          IN  /\ Len(queue') >= Len(queue)
              /\ SubSeq(queue', 1, Len(queue)) = queue
              /\ Len(Broadcast) = (IF isunit(old) THEN 1 ELSE 0)
                                     + (IF isunit(new) THEN 1 ELSE 0)
              /\ isunit(old) => IsStatusOf(Broadcast[1], old, "UnloadStarted")
              /\ isunit(new) =>
                    IsStatusOf(Broadcast[Len(Broadcast)], new, "LoadStarted")]_vars

\* C29, its case: the watcher's last event was the rename of a unit file to
\* a unit file, and the queue ends with the removal of the one and the
\* addition of the other, behind an earlier event of the new name.
C29_Witness ==
    /\ event.kind = "Rename"
    /\ KindOf(event.old_name) \in Kinds
    /\ KindOf(event.new_name) \in Kinds
    /\ Len(queue) >= 3
    /\ IsStatusOf(queue[Len(queue) - 1], event.old_name, "UnloadStarted")
    /\ IsStatusOf(queue[Len(queue)], event.new_name, "LoadStarted")
    /\ queue[Len(queue) - 2].name = event.new_name

\* --------------------------------------------------------------------- C30
\* C30.  Fail-fast paths are unreachable: whatever events and rescans came
\* before, when phase 3 runs every id of a dirty set has an entry in the
\* status table; when the load phases run every dirty id that has a status
\* and a stored description has the status LoadStarted or UpdateStarted; no
\* rescan panics; and a rescan that is over has broadcast RescanFinish last.
C30_FailFastUnreachable ==
    /\ pc # "panicked"
    /\ pc = "phase3" =>
          \A k \in Kinds : \A id \in dirty[k] : id \in DOMAIN unit_status
    /\ pc = "load" =>
          \A k \in Kinds :
              \A id \in dirty[k] :
                  (id \in DOMAIN unit_status /\ id \in DOMAIN descriptions[k]) =>
                      unit_status[id].tag \in {"LoadStarted", "UpdateStarted"}
    /\ RescanFinished =>
          /\ broadcasts[1] = RescanStart
          /\ broadcasts[Len(broadcasts)] = RescanFinish

\* C30, its case: phase 3 has evicted a dirty unit whose status was
\* LoadFailed and has left dirty another unit, which has a status and a
\* description and is about to be loaded.
C30_Witness ==
    /\ pc = "load"
    /\ \E k \in Kinds :
          \E id \in snap.dirty3[k] :
              /\ id \in DOMAIN snap.unit_status
              /\ IsLoadFailed(snap.unit_status[id])
              /\ id \notin DOMAIN unit_status
    /\ \E k \in Kinds :
          \E id \in dirty[k] :
              /\ id \in DOMAIN unit_status
              /\ id \in DOMAIN descriptions[k]


\* --------------------------------------------------------------------- C31
\* The jigs, tests and loaded scenarios of the claim's case: j was in
\* dirty_jigs when the rescan started, the stored description of t lists j,
\* and the loaded scenario s uses t.
Invalidates(j, t, s) ==
    /\ j \in snap.dirty["Jig"]
    /\ t \in DOMAIN test_descriptions
    /\ supports_jig(test_descriptions[t], j)
    /\ s \in get_scenarios(loaded)
    /\ uses_test(loaded, s, t)

\* C31.  Transitive invalidation: after phase 2 of a rescan, every loaded
\* scenario that uses a test whose stored description lists a jig that was
\* dirty when the rescan started is in dirty_scenarios, whether or not the
\* scenario's own description lists the jig: phase 2 sees the tests that
\* phase 1 made dirty.
C31_TransitiveInvalidation ==
    pc = "phase3" =>
        \A j \in JigNames, t \in TestNames, s \in DOMAIN loaded :
            Invalidates(j, t, s) => s \in dirty_scenarios

\* C31, its case: after phase 2 a loaded scenario is dirty that was not dirty
\* when the rescan started, that lists the dirty jig neither in its stored
\* nor in its loaded description, and whose test was not dirty at the start
\* either: only the test that phase 1 marked makes phase 2 mark it.
C31_Witness ==
    /\ pc = "phase3"
    /\ \E j \in JigNames, t \in TestNames, s \in DOMAIN loaded :
          /\ Invalidates(j, t, s)
          /\ s \in dirty_scenarios \ snap.dirty["Scenario"]
          /\ t \notin snap.dirty["Test"]
          /\ j \notin loaded[s].jigs
          /\ s \in DOMAIN scenario_descriptions
                => j \notin scenario_descriptions[s].jigs

=============================================================================
